---- MODULE Spec2Model ----
(***************************************************************************)
(* A model of the Eucerin market-intelligence pipeline:                    *)
(*   - the indexer        (Backend/build_faiss_index.py, main)             *)
(*   - the retriever      (Backend/query_rag.py, Backend/improvised_rag.py)*)
(*   - the GUI workers    (Dashboard/bubble_chart.py, AnalysisWorker and   *)
(*                         ForecastWorker) with the answer parser          *)
(* Each program is a specification of its own (IndexerSpec, RetrieveSpec,  *)
(* WorkerSpec); the variables of the programs that do not run stay idle.   *)
(***************************************************************************)
EXTENDS Integers, Sequences, FiniteSets, TLC

VARIABLES
    \* ---- indexer (build_faiss_index.py main) ----
    ipc,            \* position in main
    input,          \* the products of the input file: the number of chunks of each
    pidx,           \* 1-based index of the next product read_jsonl yields
    docs,           \* list of chunk records
    next_id,        \* next chunk id
    all_embeddings, \* [None] * len(docs), filled batch by batch
    i,              \* batch offset (0-based, as in the code)
    texts,          \* texts of the current batch
    embeddings,     \* local list of get_embeddings_batch_ollama
    failures,       \* number of failed embedding calls so far
    embed_returned, \* TRUE once a client.embed call of this run has returned
    index,          \* in-memory FAISS index: sequence of [id, vec]
    index_file,     \* the file args.index_out
    meta_file       \* the file args.meta_out

ivars == <<ipc, input, pidx, docs, next_id, all_embeddings, i, texts,
           embeddings, failures, embed_returned, index, index_file, meta_file>>

    \* ---- retriever (query_rag.py / improvised_rag.py retrieve) ----
VARIABLES
    rpc,            \* position in retrieve
    variant,        \* which module's retrieve runs
    caller,         \* who calls retrieve: main of the module or AnalysisWorker.run
    metadata,       \* load_metadata(meta_path): id -> record
    ranked,         \* ids of the index entries, by descending score for the query
    top_k,          \* number of slots asked for
    I,              \* I[0]: ids of the search result
    D,              \* D[0]: scores of the search result
    hits,           \* the list retrieve returns
    ollama_up,      \* whether the ollama.embeddings call of embed_query succeeds
    insights,       \* the insights argument of build_prompt
    prompt          \* the prompt build_prompt returns

rvars == <<rpc, variant, caller, metadata, ranked, top_k, I, D, hits, ollama_up,
           insights, prompt>>

    \* ---- GUI worker (bubble_chart.py AnalysisWorker.run / ForecastWorker.run) ----
VARIABLES
    wpc,                \* position in run
    worker,             \* "analysis" or "forecast"
    analyse_data_ok,    \* FALSE: analyse_data is None (the import failed)
    improvised_rag_ok,  \* FALSE: improvised_rag is None
    forecast_ok,        \* FALSE: forecast is None
    result,             \* what analyse_skin_concern returned
    rag_text,           \* str(rag_result): None before the chat model returned,
                        \* then its output, a sequence of tokens
    payload,            \* the dictionary run fills: key -> value
    emitted             \* the payloads given to finished.emit, in order

wvars == <<wpc, worker, analyse_data_ok, improvised_rag_ok, forecast_ok,
           result, rag_text, payload, emitted>>

    \* ---- GUI pages (bubble_chart.py SecondPage, ThirdPage, ForecastPage) ----
VARIABLES
    labels,             \* the texts the pages show: label -> text
    handled,            \* number of emitted payloads the page's slot has handled
    failed              \* history: the backend call of run that raised, or "none"

pvars == <<labels, handled, failed>>

    \* ---- Graph builder (build_graph.py build_graph_from_csv) ----
VARIABLES
    gpc,                \* position in build_graph_from_csv
    todo,               \* chunks of the usable rows still to process
    content,            \* history: what the chat call of the chunk gave
    triples,            \* what extract_triples returned for the chunk
    graph               \* the DiGraph: its nodes, and edge -> relation

gvars == <<gpc, todo, content, triples, graph>>

    \* ---- Chunker (build_faiss_index.py chunk_text) ----
VARIABLES
    cpc,                \* position in chunk_text
    text,               \* the text argument: None, or a sequence of characters
    size,               \* the size argument (C)
    overlap,            \* the overlap argument (O)
    start,              \* the scan cursor
    chunks,             \* the list of chunks
    origins             \* history: the value of start each chunk was cut at

cvars == <<cpc, text, size, overlap, start, chunks, origins>>

    \* ---- GUI (bubble_chart.py MainWindow and its pages, with their workers) ----
VARIABLES
    current_index,      \* the page the stacked window shows: 0..3
    selected_ngram,     \* MainWindow.selected_ngram: "none" before a click
    workers,            \* the worker threads started, in the order of their start
    queue,              \* the workers whose finished signal waits for its slot
    page2_worker,       \* SecondPage._worker: a position in workers, 0 before
    page4_worker,       \* ForecastPage._worker: a position in workers, 0 before
    calls               \* history: the backend calls made by the workers

uvars == <<current_index, selected_ngram, workers, queue, page2_worker,
           page4_worker, calls>>

    \* ---- product crawler (eucerin_data.py main and its workers) ----
VARIABLES
    runs,               \* number of runs of the crawler started so far
    resume,             \* the resume argument of main
    output_file,        \* the output_file argument of main: a file name
    files,              \* the files on disk: name -> the source of each line
    seen_urls,          \* the set main builds and hands to the workers
    url_queue,          \* the queue the workers take URLs from
    fetching,           \* worker -> the URL it is fetching, "none" if none
    fetched,            \* history: the URLs fetched in this run
    recorded            \* history: the URLs earlier runs wrote a record for

kvars == <<runs, resume, output_file, files, seen_urls, url_queue, fetching,
           fetched, recorded>>

vars == <<ivars, rvars, wvars, pvars, gvars, cvars, uvars, kvars>>

\* The variables of the programs other than the one that runs
notIndexer == <<rvars, wvars, pvars, gvars, cvars, uvars, kvars>>
notRetriever == <<ivars, wvars, pvars, gvars, cvars, uvars, kvars>>
notWorker == <<ivars, rvars, gvars, cvars, uvars, kvars>>
notGraph == <<ivars, rvars, wvars, pvars, cvars, uvars, kvars>>
notChunker == <<ivars, rvars, wvars, pvars, gvars, uvars, kvars>>
notGui == <<ivars, rvars, wvars, handled, failed, gvars, cvars, kvars>>
notCrawler == <<ivars, rvars, wvars, pvars, gvars, cvars, uvars>>

----------------------------------------------------------------------------
(* Bounds *)

MaxProducts == 3      \* products in the input file
MaxChunks == 2        \* chunks chunk_text yields for one product
MaxFailures == 2      \* failed embedding calls in one run of the indexer
BATCH_SIZE == 2       \* build_faiss_index.py:22 (32 there), scaled to the bounds
MaxId == 3            \* ids 1..MaxId may be in the index and in the metadata
MaxIndex == 2         \* entries of the index a query is run against
MaxTopK == 3          \* top_k of a retrieve call
MaxLines == 3         \* lines of a chat output that does not follow the format
MaxGraphChunks == 2   \* 400-character chunks in the usable rows of the csv file
MaxTextLen == 4       \* characters of a text given to chunk_text
MaxSize == 3          \* size of a chunk_text call; overlap is in 0..MaxSize
MaxWorkers == 2       \* worker threads started in one run of the GUI
MaxRuns == 2          \* runs of the product crawler, one after the other
MaxQueue == 2         \* URLs main puts on the queue in one run

----------------------------------------------------------------------------
(* Values *)

None == <<>>
Some(v) == <<v>>

NoFile == [exists |-> FALSE, lines |-> <<>>]

Min(a, b) == IF a < b THEN a ELSE b

\* The text of chunk c of product p: distinct chunks have distinct texts.
ChunkText(p, c) == [product |-> p, chunk |-> c]

\* chunk_text(text if text else short) for product p, as far as main uses it:
\* the list of its chunks, empty for a product without text.
chunk_text(p) == [c \in 1..input[p] |-> ChunkText(p, c)]

\* client.embed(...).embeddings[0]: deterministic in the text.
Embed(t) == [embedding_of |-> t]

\* faiss.normalize_L2
normalize_L2(v) == [unit |-> v]

\* docs[a:b] (0-based, end-exclusive slice, clipped at the end of the list)
Slice(s, a, b) == SubSeq(s, a + 1, Min(b, Len(s)))

----------------------------------------------------------------------------
(* Indexer: build_faiss_index.py main *)

\* The retriever when it does not run
RetrieverIdle ==
    /\ rpc = "idle"
    /\ variant = "none"
    /\ caller = "none"
    /\ metadata = <<>>
    /\ ranked = <<>>
    /\ top_k = 0
    /\ I = <<>>
    /\ D = <<>>
    /\ hits = <<>>
    /\ ollama_up = FALSE
    /\ insights = None
    /\ prompt = None

\* The graph builder when it does not run
EmptyList == [shape |-> "list", items |-> <<>>]
EmptyGraph == [nodes |-> {}, edges |-> <<>>]
GraphIdle ==
    /\ gpc = "idle"
    /\ todo = 0
    /\ content = EmptyList
    /\ triples = EmptyList
    /\ graph = EmptyGraph

\* chunk_text when it does not run
ChunkerIdle ==
    /\ cpc = "idle"
    /\ text = None
    /\ size = 0
    /\ overlap = 0
    /\ start = 0
    /\ chunks = <<>>
    /\ origins = <<>>

\* The product crawler: the names of its workers, the URLs of the site, the
\* files it can be given or writes, and the crawler before its first run
WorkerNames == {"worker-0", "worker-1"}
Urls == {"u1", "u2"}
FileNames == {"full.txt", "eucerin_products_full.jsonl"}

CrawlerIdle ==
    /\ runs = 0
    /\ resume = FALSE
    /\ output_file = "none"
    /\ files = [n \in FileNames |-> <<>>]
    /\ seen_urls = {}
    /\ url_queue = <<>>
    /\ fetching = [w \in WorkerNames |-> "none"]
    /\ fetched = {}
    /\ recorded = {}

\* The GUI when it does not run
GuiIdle ==
    /\ current_index = 0
    /\ selected_ngram = "none"
    /\ workers = <<>>
    /\ queue = <<>>
    /\ page2_worker = 0
    /\ page4_worker = 0
    /\ calls = {}

\* The GUI worker when it does not run
WorkerIdle ==
    /\ wpc = "idle"
    /\ worker = "none"
    /\ analyse_data_ok = FALSE
    /\ improvised_rag_ok = FALSE
    /\ forecast_ok = FALSE
    /\ result = <<>>
    /\ rag_text = None
    /\ payload = <<>>
    /\ emitted = <<>>

\* The labels of the pages after construction
InitialLabels ==
    [status_label |-> "", concerns_text |-> <<"Dry skin and flakiness\n", "Acne / breakouts\n",
                              "Hyperpigmentation & dark spots\n",
                              "Redness and irritation\n",
                              "Sensitivity from harsh products\n">>,
     summary_label |-> <<"Summary:\n\n">>,
     suggestions_label |-> <<"Product Improvement Suggestions:\n\n">>,
     sources_label |-> <<"Sources:\n\n">>,
     marketing_label |-> <<"Marketing:\n\n">>,
     forecast_status_label |-> "",
     insight_label |-> <<"Forecast insight will appear here...">>,
     chart_canvas |-> None]

\* The pages when no worker runs
PagesIdle ==
    /\ labels = InitialLabels
    /\ handled = 0
    /\ failed = "none"

IndexerInit ==
    /\ RetrieverIdle
    /\ WorkerIdle
    /\ PagesIdle
    /\ GraphIdle
    /\ ChunkerIdle
    /\ GuiIdle
    /\ CrawlerIdle
    /\ ipc = "read"
    /\ input \in UNION {[1..n -> 0..MaxChunks] : n \in 0..MaxProducts}
    /\ pidx = 1
    /\ docs = <<>>
    /\ next_id = 1
    /\ all_embeddings = <<>>
    /\ i = 0
    /\ texts = <<>>
    /\ embeddings = <<>>
    /\ failures = 0
    /\ embed_returned = FALSE
    /\ index = <<>>
    /\ index_file = NoFile
    /\ meta_file = NoFile

\* The records appended for one product: one per chunk, ids from next_id on.
NewDocs(p, cs) ==
    [c \in 1..Len(cs) |->
        [id |-> next_id + c - 1, product_id |-> p, text |-> cs[c]]]

\* A variant of ReadProduct that counts a product without chunks.
ReadProductCountsEmpty ==
    /\ ipc = "read"
    /\ pidx <= Len(input)
    /\ LET product_chunks == chunk_text(pidx) IN
        IF product_chunks = <<>>
        THEN /\ docs' = docs
             /\ next_id' = next_id + 1
        ELSE /\ docs' = docs \o NewDocs(pidx, product_chunks)
             /\ next_id' = next_id + Len(product_chunks)
    /\ pidx' = pidx + 1
    /\ UNCHANGED <<ipc, input, all_embeddings, i, texts, embeddings, failures,
                   index, index_file, meta_file>>
    /\ UNCHANGED embed_returned
    /\ UNCHANGED notIndexer

\* One iteration of "for product in read_jsonl(args.input)".
ReadProduct ==
    /\ ipc = "read"
    /\ pidx <= Len(input)
    /\ LET product_chunks == chunk_text(pidx) IN
        IF product_chunks = <<>>
        THEN UNCHANGED <<docs, next_id>>
        ELSE /\ docs' = docs \o NewDocs(pidx, product_chunks)
             /\ next_id' = next_id + Len(product_chunks)
    /\ pidx' = pidx + 1
    /\ UNCHANGED <<ipc, input, all_embeddings, i, texts, embeddings, failures,
                   index, index_file, meta_file>>
    /\ UNCHANGED embed_returned
    /\ UNCHANGED notIndexer

\* End of the input with no chunk: "No documents/chunks to index. Exiting."
ExitEmpty ==
    /\ ipc = "read"
    /\ pidx > Len(input)
    /\ Len(docs) = 0
    /\ ipc' = "done"
    /\ UNCHANGED <<input, pidx, docs, next_id, all_embeddings, i, texts,
                   embeddings, failures, index, index_file, meta_file>>
    /\ UNCHANGED embed_returned
    /\ UNCHANGED notIndexer

\* all_embeddings = [None] * len(docs); i = 0
StartEmbedding ==
    /\ ipc = "read"
    /\ pidx > Len(input)
    /\ Len(docs) > 0
    /\ all_embeddings' = [k \in 1..Len(docs) |-> None]
    /\ i' = 0
    /\ ipc' = "loop"
    /\ UNCHANGED <<input, pidx, docs, next_id, texts, embeddings, failures,
                   index, index_file, meta_file>>
    /\ UNCHANGED embed_returned
    /\ UNCHANGED notIndexer

\* while i < len(docs): batch = docs[i:i+BATCH_SIZE]; texts = [...];
\* get_embeddings_batch_ollama(texts) starts with embeddings = [].
BatchStart ==
    /\ ipc = "loop"
    /\ i < Len(docs)
    /\ texts' = [k \in 1..Len(Slice(docs, i, i + BATCH_SIZE)) |->
                    Slice(docs, i, i + BATCH_SIZE)[k].text]
    /\ embeddings' = <<>>
    /\ ipc' = "embedding"
    /\ UNCHANGED <<input, pidx, docs, next_id, all_embeddings, i, failures,
                   index, index_file, meta_file>>
    /\ UNCHANGED embed_returned
    /\ UNCHANGED notIndexer

\* One iteration of "for text in texts" whose client.embed call returns.
EmbedOk ==
    /\ ipc = "embedding"
    /\ Len(embeddings) < Len(texts)
    /\ embeddings' = Append(embeddings, Embed(texts[Len(embeddings) + 1]))
    /\ UNCHANGED <<ipc, input, pidx, docs, next_id, all_embeddings, i, texts,
                   failures, index, index_file, meta_file>>
    /\ embed_returned' = TRUE
    /\ UNCHANGED notIndexer

\* A variant of EmbedFail that keeps the embeddings made before the failure.
EmbedFailKeepsPartial ==
    /\ ipc = "embedding"
    /\ Len(embeddings) < Len(texts)
    /\ failures < MaxFailures
    /\ failures' = failures + 1
    /\ all_embeddings' = [k \in 1..Len(all_embeddings) |->
            IF k > i /\ k <= i + Len(embeddings)
            THEN Some(embeddings[k - i]) ELSE all_embeddings[k]]
    /\ ipc' = "sleep"
    /\ UNCHANGED <<input, pidx, docs, next_id, i, texts, embeddings,
                   index, index_file, meta_file>>
    /\ UNCHANGED embed_returned
    /\ UNCHANGED notIndexer

\* One iteration of "for text in texts" whose client.embed call raises: the
\* exception leaves get_embeddings_batch_ollama, whose local list is never
\* returned (the variable keeps it until the next call starts with a new list),
\* and is caught in main, which prints and goes to sleep.
EmbedFail ==
    /\ ipc = "embedding"
    /\ Len(embeddings) < Len(texts)
    /\ failures < MaxFailures
    /\ failures' = failures + 1
    /\ ipc' = "sleep"
    /\ UNCHANGED <<input, pidx, docs, next_id, all_embeddings, i, texts,
                   embeddings, index, index_file, meta_file>>
    /\ UNCHANGED embed_returned
    /\ UNCHANGED notIndexer

\* A variant of Sleep that gives the batch up after the pause.
SleepSkipsBatch ==
    /\ ipc = "sleep"
    /\ ipc' = "loop"
    /\ i' = i + BATCH_SIZE
    /\ UNCHANGED <<input, pidx, docs, next_id, all_embeddings, texts,
                   embeddings, failures, index, index_file, meta_file>>
    /\ UNCHANGED embed_returned
    /\ UNCHANGED notIndexer

\* time.sleep(5); continue
Sleep ==
    /\ ipc = "sleep"
    /\ ipc' = "loop"
    /\ UNCHANGED <<input, pidx, docs, next_id, all_embeddings, i, texts,
                   embeddings, failures, index, index_file, meta_file>>
    /\ UNCHANGED embed_returned
    /\ UNCHANGED notIndexer

\* A variant of BatchStore that advances the offset one too far.
BatchStoreSkips ==
    /\ ipc = "embedding"
    /\ Len(embeddings) = Len(texts)
    /\ all_embeddings' = [k \in 1..Len(all_embeddings) |->
            IF k > i /\ k <= i + Len(embeddings)
            THEN Some(embeddings[k - i]) ELSE all_embeddings[k]]
    /\ i' = i + BATCH_SIZE + 1
    /\ ipc' = "loop"
    /\ UNCHANGED <<input, pidx, docs, next_id, texts, embeddings, failures,
                   index, index_file, meta_file>>
    /\ UNCHANGED embed_returned
    /\ UNCHANGED notIndexer

\* get_embeddings_batch_ollama returned: for j, v in enumerate(emb):
\* all_embeddings[i + j] = v; i += BATCH_SIZE
BatchStore ==
    /\ ipc = "embedding"
    /\ Len(embeddings) = Len(texts)
    /\ all_embeddings' = [k \in 1..Len(all_embeddings) |->
            IF k > i /\ k <= i + Len(embeddings)
            THEN Some(embeddings[k - i]) ELSE all_embeddings[k]]
    /\ i' = i + BATCH_SIZE
    /\ ipc' = "loop"
    /\ UNCHANGED <<input, pidx, docs, next_id, texts, embeddings, failures,
                   index, index_file, meta_file>>
    /\ UNCHANGED embed_returned
    /\ UNCHANGED notIndexer

\* The vector np.array(all_embeddings) holds for slot k. A slot left None makes
\* the array ragged; the model keeps it as a missing vector.
Vector(k) ==
    IF all_embeddings[k] = None THEN None
    ELSE Some(normalize_L2(all_embeddings[k][1]))

\* Loop exit, then xb, ids and index.add_with_ids(xb, ids)
BuildIndex ==
    /\ ipc = "loop"
    /\ i >= Len(docs)
    /\ index' = [k \in 1..Len(docs) |-> [id |-> docs[k].id, vec |-> Vector(k)]]
    /\ ipc' = "write_index"
    /\ UNCHANGED <<input, pidx, docs, next_id, all_embeddings, i, texts,
                   embeddings, failures, index_file, meta_file>>
    /\ UNCHANGED embed_returned
    /\ UNCHANGED notIndexer

\* faiss.write_index(index, args.index_out)
WriteIndex ==
    /\ ipc = "write_index"
    /\ index_file' = [exists |-> TRUE, lines |-> index]
    /\ ipc' = "open_meta"
    /\ UNCHANGED <<input, pidx, docs, next_id, all_embeddings, i, texts,
                   embeddings, failures, index, meta_file>>
    /\ UNCHANGED embed_returned
    /\ UNCHANGED notIndexer

\* with open(args.meta_out, "w") as f: the file is created empty
OpenMeta ==
    /\ ipc = "open_meta"
    /\ meta_file' = [exists |-> TRUE, lines |-> <<>>]
    /\ ipc' = "write_meta"
    /\ UNCHANGED <<input, pidx, docs, next_id, all_embeddings, i, texts,
                   embeddings, failures, index, index_file>>
    /\ UNCHANGED embed_returned
    /\ UNCHANGED notIndexer

\* One iteration of "for d in docs: f.write(json.dumps(out) + '\n')"
WriteMetaLine ==
    /\ ipc = "write_meta"
    /\ Len(meta_file.lines) < Len(docs)
    /\ meta_file' = [meta_file EXCEPT
            !.lines = Append(@, docs[Len(meta_file.lines) + 1])]
    /\ UNCHANGED <<ipc, input, pidx, docs, next_id, all_embeddings, i, texts,
                   embeddings, failures, index, index_file>>
    /\ UNCHANGED embed_returned
    /\ UNCHANGED notIndexer

\* End of the with block; print("Done.")
IndexerDone ==
    /\ ipc = "write_meta"
    /\ Len(meta_file.lines) = Len(docs)
    /\ ipc' = "done"
    /\ UNCHANGED <<input, pidx, docs, next_id, all_embeddings, i, texts,
                   embeddings, failures, index, index_file, meta_file>>
    /\ UNCHANGED embed_returned
    /\ UNCHANGED notIndexer

IndexerNext ==
    \/ ReadProduct
    \/ ExitEmpty
    \/ StartEmbedding
    \/ BatchStart
    \/ EmbedOk
    \/ EmbedFail
    \/ Sleep
    \/ BatchStore
    \/ BuildIndex
    \/ WriteIndex
    \/ OpenMeta
    \/ WriteMetaLine
    \/ IndexerDone

IndexerSpec == IndexerInit /\ [][IndexerNext]_vars

\* The indexer is one sequential process: it takes its next step whenever it has
\* one. The embedding service fails at most MaxFailures times.
FairIndexerSpec == IndexerSpec /\ WF_vars(IndexerNext)

----------------------------------------------------------------------------
(* Retriever: retrieve of query_rag.py and of improvised_rag.py *)

\* The indexer when it does not run
IndexerIdle ==
    /\ ipc = "idle"
    /\ input = <<>>
    /\ pidx = 0
    /\ docs = <<>>
    /\ next_id = 0
    /\ all_embeddings = <<>>
    /\ i = 0
    /\ texts = <<>>
    /\ embeddings = <<>>
    /\ failures = 0
    /\ embed_returned = FALSE
    /\ index = <<>>
    /\ index_file = NoFile
    /\ meta_file = NoFile

\* The record a line of the metadata file gives for an id
MetaRecord(id) ==
    [id |-> id, product_id |-> <<"product", id>>,
     product_name |-> <<"name", id>>, text |-> <<"text", id>>,
     source |-> <<"source", id>>, meta |-> <<"meta", id>>]

\* load_metadata: md[int(obj["id"])] = obj for every line
load_metadata(ids) == [id \in ids |-> MetaRecord(id)]

\* The score of the entry at rank r (descending in r), and FAISS's score of a
\* slot without entry.
ScoreAt(r) == 100 - r
NoScore == -1000

\* index.search(q, k): k slots, the best entries first, then slots with id -1
SearchIds(k) == [r \in 1..k |-> IF r <= Len(ranked) THEN ranked[r] ELSE -1]
SearchScores(k) == [r \in 1..k |-> IF r <= Len(ranked) THEN ScoreAt(r) ELSE NoScore]

\* hits.append({...})
Hit(idx, score, m) ==
    [id |-> idx, score |-> score, product_id |-> m.product_id,
     product_name |-> m.product_name, text |-> m.text, source |-> m.source,
     meta |-> m.meta]

\* A variant of the loop of retrieve that puts each new hit in front of the
\* earlier ones.
RECURSIVE retrieve_loop_newest_first(_, _, _, _)
retrieve_loop_newest_first(ids, scores, md, k) ==
    IF k > Min(Len(ids), Len(scores)) THEN <<>>
    ELSE IF ids[k] = -1 THEN retrieve_loop_newest_first(ids, scores, md, k + 1)
    ELSE IF ids[k] \in DOMAIN md
         THEN retrieve_loop_newest_first(ids, scores, md, k + 1)
              \o <<Hit(ids[k], scores[k], md[ids[k]])>>
         ELSE retrieve_loop_newest_first(ids, scores, md, k + 1)

\* A variant of the loop of retrieve that does not test "if m".
RECURSIVE retrieve_loop_all_ids(_, _, _, _)
retrieve_loop_all_ids(ids, scores, md, k) ==
    IF k > Min(Len(ids), Len(scores)) THEN <<>>
    ELSE IF ids[k] = -1 THEN retrieve_loop_all_ids(ids, scores, md, k + 1)
    ELSE <<Hit(ids[k], scores[k],
               IF ids[k] \in DOMAIN md THEN md[ids[k]] ELSE MetaRecord(0))>>
         \o retrieve_loop_all_ids(ids, scores, md, k + 1)

\* query_rag.py: for idx, score in zip(ids, scores), from slot k on
RECURSIVE retrieve_loop(_, _, _, _)
retrieve_loop(ids, scores, md, k) ==
    IF k > Min(Len(ids), Len(scores)) THEN <<>>
    ELSE IF ids[k] = -1 THEN retrieve_loop(ids, scores, md, k + 1)
    ELSE IF ids[k] \in DOMAIN md
         THEN <<Hit(ids[k], scores[k], md[ids[k]])>>
              \o retrieve_loop(ids, scores, md, k + 1)
         ELSE retrieve_loop(ids, scores, md, k + 1)

\* A variant of the loop of the improvised retrieve that does not test "if m".
RECURSIVE improvised_retrieve_loop_all_ids(_, _, _, _)
improvised_retrieve_loop_all_ids(ids, scores, md, k) ==
    IF k > Min(Len(ids), Len(scores)) THEN <<>>
    ELSE IF ids[k] = -1
         THEN improvised_retrieve_loop_all_ids(ids, scores, md, k + 1)
    ELSE <<Hit(ids[k], scores[k],
               IF ids[k] \in DOMAIN md THEN md[ids[k]] ELSE MetaRecord(0))>>
         \o improvised_retrieve_loop_all_ids(ids, scores, md, k + 1)

\* improvised_rag.py: for idx, score in zip(I[0], D[0]), from slot k on
RECURSIVE improvised_retrieve_loop(_, _, _, _)
improvised_retrieve_loop(ids, scores, md, k) ==
    IF k > Min(Len(ids), Len(scores)) THEN <<>>
    ELSE IF ids[k] = -1 THEN improvised_retrieve_loop(ids, scores, md, k + 1)
    ELSE IF ids[k] \in DOMAIN md
         THEN <<Hit(ids[k], scores[k], md[ids[k]])>>
              \o improvised_retrieve_loop(ids, scores, md, k + 1)
         ELSE improvised_retrieve_loop(ids, scores, md, k + 1)

\* A literal piece of a prompt template and a value rendered into it
Lit(s) == [lit |-> s]
Val(v) == [val |-> v]

\* The question asked, and the values of the insights argument: absent, the
\* empty text, a text
Question == <<"question">>
InsightsInputs == {None, Some(<<>>), Some(<<"insight">>)}

\* f"Source: {src}\nProduct: {h.get('product_name')}\nExcerpt: {txt}\n"
ContextEntry(h) ==
    <<Lit("Source: "), Val(h.source), Lit("\nProduct: "), Val(h.product_name),
      Lit("\nExcerpt: "), Val(h.text), Lit("\n")>>

Separator == Lit("\n\n---\n\n")

\* A variant of context_block that joins the entries without separator.
RECURSIVE context_block_unseparated(_)
context_block_unseparated(hs) ==
    IF hs = <<>> THEN <<>>
    ELSE ContextEntry(hs[1]) \o context_block_unseparated(Tail(hs))

\* ctxs of the hits, then "\n\n---\n\n".join(ctxs)
RECURSIVE context_block(_)
context_block(hs) ==
    IF hs = <<>> THEN <<>>
    ELSE IF Len(hs) = 1 THEN ContextEntry(hs[1])
    ELSE ContextEntry(hs[1]) \o <<Separator>> \o context_block(Tail(hs))

\* query_rag.build_prompt(question, hits)
build_prompt(question, hs) ==
    <<Lit("You are a helpful assistant that answers questions about Eucerin products using the provided context. ...\n\nContext:\n")>>
    \o context_block(hs)
    \o <<Lit("\n\nQuestion: "), Val(question),
         Lit("\n\nAnswer concisely and list the source URLs you used at the end under 'Sources:'.\n")>>

InsightsLabel == Lit("\nAdditional Insights:\n")

\* A variant of improvement_block that renders the block for every insights.
improvement_block_always(ins) ==
    <<InsightsLabel, Val(IF ins = None THEN <<"None">> ELSE ins[1]), Lit("\n")>>

\* f"\nAdditional Insights:\n{insights}\n" if insights else ""
improvement_block(ins) ==
    IF ins # None /\ ins[1] # <<>>
    THEN <<InsightsLabel, Val(ins[1]), Lit("\n")>>
    ELSE <<>>

\* improvised_rag.build_prompt(question, hits, insights)
improvised_build_prompt(question, hs, ins) ==
    <<Lit("\nYou are a skincare marketing specialist RAG system specializing in Eucerin products. ... Using the extracted product ingredients AND the external insights provided, ...\n\n\n\nContext:\n")>>
    \o context_block(hs)
    \o <<Lit("\n\n")>>
    \o improvement_block(ins)
    \o <<Lit("\n\nUser Question:\n"), Val(question),
         Lit("\n\nReturn the answer in this format:\n\n### Answer\n...\n\n### Product Improvement Suggestions\n...\n\n### Marketing Suggestions\n...\n\n### Sources\n...\n")>>

RetrieveInit ==
    /\ IndexerIdle
    /\ WorkerIdle
    /\ PagesIdle
    /\ GraphIdle
    /\ ChunkerIdle
    /\ GuiIdle
    /\ CrawlerIdle
    /\ rpc = "start"
    /\ variant \in {"query_rag", "improvised_rag"}
    /\ caller \in IF variant = "query_rag" THEN {"main"}
                 ELSE {"main", "AnalysisWorker"}
    /\ metadata \in {load_metadata(ids) : ids \in SUBSET (1..MaxId)}
    /\ ranked \in UNION {[1..n -> 1..MaxId] : n \in 0..MaxIndex}
    /\ top_k \in 1..MaxTopK
    /\ I = <<>>
    /\ D = <<>>
    /\ hits = <<>>
    /\ ollama_up \in BOOLEAN
    /\ insights = None
    /\ prompt = None

\* faiss.read_index, load_metadata, and an embed_query call that returns
EmbedQueryOk ==
    /\ rpc = "start"
    /\ ollama_up
    /\ rpc' = "search"
    /\ UNCHANGED <<variant, caller, metadata, ranked, top_k, I, D, hits, ollama_up,
                   insights, prompt>>
    /\ UNCHANGED notRetriever

\* A variant of EmbedQueryFail for a retrieve that catches the exception of
\* embed_query and returns an empty list.
EmbedQueryFailReturnsEmpty ==
    /\ rpc = "start"
    /\ ~ollama_up
    /\ rpc' = "returned"
    /\ UNCHANGED <<variant, caller, metadata, ranked, top_k, I, D, hits, ollama_up,
                   insights, prompt>>
    /\ UNCHANGED notRetriever

\* embed_query raises: the exception leaves retrieve, nothing is returned
EmbedQueryFail ==
    /\ rpc = "start"
    /\ ~ollama_up
    /\ rpc' = "raised"
    /\ UNCHANGED <<variant, caller, metadata, ranked, top_k, I, D, hits, ollama_up,
                   insights, prompt>>
    /\ UNCHANGED notRetriever

\* D, I = index.search(np.expand_dims(q_emb, axis=0), top_k)
Search ==
    /\ rpc = "search"
    /\ I' = SearchIds(top_k)
    /\ D' = SearchScores(top_k)
    /\ rpc' = "loop"
    /\ UNCHANGED <<variant, caller, metadata, ranked, top_k, hits, ollama_up,
                   insights, prompt>>
    /\ UNCHANGED notRetriever

\* The loop over the slots and "return hits"
RetrieveReturn ==
    /\ rpc = "loop"
    /\ hits' = IF variant = "query_rag"
               THEN retrieve_loop(I, D, metadata, 1)
               ELSE improvised_retrieve_loop(I, D, metadata, 1)
    /\ rpc' = "returned"
    /\ UNCHANGED <<variant, caller, metadata, ranked, top_k, I, D, ollama_up,
                   insights, prompt>>
    /\ UNCHANGED notRetriever

\* main: if not hits: print("No relevant documents found."); return
NoHits ==
    /\ rpc = "returned"
    /\ caller = "main"
    /\ hits = <<>>
    /\ rpc' = "no_hits"
    /\ UNCHANGED <<variant, caller, metadata, ranked, top_k, I, D, hits, ollama_up,
                   insights, prompt>>
    /\ UNCHANGED notRetriever

\* prompt = build_prompt(...): called by main after the test of hits, and by
\* AnalysisWorker.run with whatever retrieve returned
BuildPrompt ==
    /\ rpc = "returned"
    /\ caller = "AnalysisWorker" \/ hits # <<>>
    /\ \E ins \in InsightsInputs :
          /\ variant = "query_rag" => ins = None
          /\ insights' = ins
          /\ prompt' = IF variant = "query_rag"
                       THEN Some(build_prompt(Question, hits))
                       ELSE Some(improvised_build_prompt(Question, hits, ins))
    /\ rpc' = "prompted"
    /\ UNCHANGED <<variant, caller, metadata, ranked, top_k, I, D, hits, ollama_up>>
    /\ UNCHANGED notRetriever

\* answer = call_chat_model(prompt)
CallChatModel ==
    /\ rpc = "prompted"
    /\ rpc' = "answered"
    /\ UNCHANGED <<variant, caller, metadata, ranked, top_k, I, D, hits, ollama_up,
                   insights, prompt>>
    /\ UNCHANGED notRetriever

RetrieveNext ==
    \/ EmbedQueryOk
    \/ EmbedQueryFail
    \/ Search
    \/ RetrieveReturn
    \/ NoHits
    \/ BuildPrompt
    \/ CallChatModel

RetrieveSpec == RetrieveInit /\ [][RetrieveNext]_vars

----------------------------------------------------------------------------
(* Answer parser: the regular expressions of AnalysisWorker.run, on texts   *)
(* that are sequences of tokens: a heading mark ("###", "##"), a white      *)
(* space character (" ", "\n") or a word. re.I is the words' normal form.   *)

WS == {" ", "\n"}          \* \s
Hashes == {"##", "###"}    \* #{2,}

ANSWER == <<"Answer">>
PIS == <<"Product", " ", "Improvement", " ", "Suggestions">>
SOURCES == <<"Sources">>

\* \s* from position p: the position of the first token that is not white space
RECURSIVE SkipWs(_, _)
SkipWs(t, p) == IF p <= Len(t) /\ t[p] \in WS THEN SkipWs(t, p + 1) ELSE p

\* The last position that is not white space, from p down (0 if none)
RECURSIVE SkipWsBack(_, _)
SkipWsBack(t, p) == IF p >= 1 /\ t[p] \in WS THEN SkipWsBack(t, p - 1) ELSE p

\* str.strip()
Strip(t) == SubSeq(t, SkipWs(t, 1), SkipWsBack(t, Len(t)))

\* The literal words at position p
MatchWords(t, p, words) ==
    /\ p + Len(words) - 1 <= Len(t)
    /\ SubSeq(t, p, p + Len(words) - 1) = words

\* ###\s*<words> matched at position p: the position after the match, else 0
HeadingEnd(t, p, words) ==
    IF p <= Len(t) /\ t[p] = "###"
    THEN LET q == SkipWs(t, p + 1) IN
         IF MatchWords(t, q, words) THEN q + Len(words) ELSE 0
    ELSE 0

\* The least element of a non-empty set of numbers
Least(S) == CHOOSE p \in S : \A q \in S : p <= q

\* The first position >= from where ###\s*<words> matches, else 0
Find(t, from, words) ==
    LET S == {p \in from..Len(t) : HeadingEnd(t, p, words) # 0} IN
    IF S = {} THEN 0 ELSE Least(S)

\* re.search(r"###\s*Answer\s*(.*?)###\s*Product Improvement Suggestions\s*(.*?)
\* ###\s*Sources\s*(.*)", rag_text, re.S | re.I): the lazy groups end at the
\* first heading that follows.
primary_search(t) ==
    LET a == Find(t, 1, ANSWER)
        ea == HeadingEnd(t, a, ANSWER)
        p == IF a = 0 THEN 0 ELSE Find(t, ea, PIS)
        ep == HeadingEnd(t, p, PIS)
        c == IF p = 0 THEN 0 ELSE Find(t, ep, SOURCES)
        ec == HeadingEnd(t, c, SOURCES)
    IN  IF c = 0 THEN [matched |-> FALSE, g1 |-> <<>>, g2 |-> <<>>, g3 |-> <<>>]
        ELSE [matched |-> TRUE, g1 |-> SubSeq(t, ea, p - 1),
              g2 |-> SubSeq(t, ep, c - 1), g3 |-> SubSeq(t, ec, Len(t))]

\* ###\s*Product Improvement Suggestions|###\s*Sources matched at p: the
\* position after the match, else 0
SecondaryEnd(t, p) ==
    IF HeadingEnd(t, p, PIS) # 0 THEN HeadingEnd(t, p, PIS)
    ELSE HeadingEnd(t, p, SOURCES)

\* A variant of split that splits on the first secondary heading only.
RECURSIVE split_once(_, _, _)
split_once(t, p, begin) ==
    IF p > Len(t) THEN <<SubSeq(t, begin, Len(t))>>
    ELSE IF SecondaryEnd(t, p) # 0
         THEN <<SubSeq(t, begin, p - 1), SubSeq(t, SecondaryEnd(t, p), Len(t))>>
         ELSE split_once(t, p + 1, begin)

\* re.split(r"###\s*Product Improvement Suggestions|###\s*Sources", rag_text):
\* the scan is at position p, the current part began at begin.
RECURSIVE split(_, _, _)
split(t, p, begin) ==
    IF p > Len(t) THEN <<SubSeq(t, begin, Len(t))>>
    ELSE IF SecondaryEnd(t, p) # 0
         THEN <<SubSeq(t, begin, p - 1)>>
              \o split(t, SecondaryEnd(t, p), SecondaryEnd(t, p))
         ELSE split(t, p + 1, begin)

\* re.search(r"#{2,}\s*Marketing\s*(.*?)(?:\n#{2,}|\Z)", rag_text, re.S | re.I),
\* group 1 stripped, '' without a match. \s* after Marketing is greedy; the
\* lazy group ends before the first newline that a heading mark follows, or at
\* the end of the text.
marketing_search(t) ==
    LET S == {p \in 1..Len(t) :
                /\ t[p] \in Hashes
                /\ MatchWords(t, SkipWs(t, p + 1), <<"Marketing">>)}
    IN  IF S = {} THEN <<>>
        ELSE LET b == SkipWs(t, SkipWs(t, Least(S) + 1) + 1)
                 E == {r \in b..(Len(t) - 1) :
                            t[r] = "\n" /\ t[r + 1] \in Hashes}
             IN  Strip(SubSeq(t, b, IF E = {} THEN Len(t) ELSE Least(E) - 1))

\* A variant of the parser whose fallback splits once only.
parse_split_once(t) ==
    LET m == primary_search(t)
        parts == split_once(t, 1, 1)
    IN  [answer |-> IF m.matched THEN Strip(m.g1) ELSE Strip(parts[1]),
         suggestions |-> IF m.matched THEN Strip(m.g2)
                         ELSE IF Len(parts) > 1 THEN Strip(parts[2]) ELSE <<>>,
         sources |-> IF m.matched THEN Strip(m.g3)
                     ELSE IF Len(parts) > 2 THEN Strip(parts[3]) ELSE <<>>,
         marketing |-> marketing_search(t)]

\* The sections AnalysisWorker.run parses from rag_text
parse_sections(t) ==
    LET m == primary_search(t)
        parts == split(t, 1, 1)
    IN  [answer |-> IF m.matched THEN Strip(m.g1) ELSE Strip(parts[1]),
         suggestions |-> IF m.matched THEN Strip(m.g2)
                         ELSE IF Len(parts) > 1 THEN Strip(parts[2]) ELSE <<>>,
         sources |-> IF m.matched THEN Strip(m.g3)
                     ELSE IF Len(parts) > 2 THEN Strip(parts[3]) ELSE <<>>,
         marketing |-> marketing_search(t)]

----------------------------------------------------------------------------
(* Chat outputs *)

BodyWords == {"x", "y"}

HeadingLine(mark, words) == <<mark, " ">> \o words \o <<"\n">>
BodyLine(w) == <<w, "\n", "\n">>

\* The headings build_prompt asks for
AnswerLine == HeadingLine("###", ANSWER)
SuggestionsLine == HeadingLine("###", PIS)
MarketingLine == HeadingLine("###", <<"Marketing", " ", "Suggestions">>)
SourcesLine == HeadingLine("###", SOURCES)

\* An output in the format at the end of the prompt of build_prompt, with the
\* bodies a, b, c, d under the four headings
FormatOutput(a, b, c, d) ==
    AnswerLine \o BodyLine(a) \o SuggestionsLine \o BodyLine(b)
    \o MarketingLine \o BodyLine(c) \o SourcesLine \o BodyLine(d)

FormatOutputs ==
    {FormatOutput(a, b, c, d) : a \in BodyWords, b \in BodyWords,
                                c \in BodyWords, d \in BodyWords}

\* The lines of an output that does not follow the format
Lines ==
    {AnswerLine, SuggestionsLine, MarketingLine, SourcesLine,
     HeadingLine("##", <<"Marketing">>)} \cup {BodyLine(w) : w \in BodyWords}

RECURSIVE Flatten(_)
Flatten(ls) == IF ls = <<>> THEN <<>> ELSE Head(ls) \o Flatten(Tail(ls))

\* What call_chat_model may return
RagTexts ==
    FormatOutputs \cup
    {Flatten(ls) : ls \in UNION {[1..n -> Lines] : n \in 0..MaxLines}}

----------------------------------------------------------------------------
(* GUI workers: AnalysisWorker.run and ForecastWorker.run                   *)
(* The outer "except Exception" of either run has no action: the statements *)
(* outside the inner try blocks are tests for None, dictionary reads of the *)
(* dictionary analyse_skin_concern always returns, payload assignments and  *)
(* emit, and none of them raises.                                           *)

\* What analyse_skin_concern may return: always a dictionary with the keys
\* graph_data (a list of lines) and analysis (a text)
AnalysisResults ==
    {[graph_data |-> <<>>, analysis |-> ""],
     [graph_data |-> <<"acne -[CAUSES]-> redness">>, analysis |-> "Summary"],
     [graph_data |-> <<"acne -[CAUSES]-> redness", "urea -[TREATS]-> dryness">>,
      analysis |-> "Summary"]}

\* "\n".join(lines)
RECURSIVE Join(_)
Join(ls) ==
    IF ls = <<>> THEN <<>>
    ELSE IF Len(ls) = 1 THEN <<ls[1]>>
    ELSE <<ls[1], "\n">> \o Join(Tail(ls))

\* payload[key] = value
Put(d, key, value) == (key :> value) @@ d

\* self.finished.emit(payload)
Emit(p) == emitted' = Append(emitted, p)

WorkerInit ==
    /\ IndexerIdle
    /\ RetrieverIdle
    /\ GraphIdle
    /\ ChunkerIdle
    /\ GuiIdle
    /\ CrawlerIdle
    /\ wpc = "start"
    /\ worker \in {"analysis", "forecast"}
    /\ analyse_data_ok \in BOOLEAN
    /\ improvised_rag_ok \in BOOLEAN
    /\ forecast_ok \in BOOLEAN
    /\ result = <<>>
    /\ rag_text = None
    /\ payload = <<>>
    /\ emitted = <<>>
    /\ labels = IF worker = "analysis"
                THEN [InitialLabels EXCEPT !.status_label = "Analyzing ..."]
                ELSE [InitialLabels EXCEPT
                        !.forecast_status_label = "Forecasting trend ..."]
    /\ handled = 0
    /\ failed = "none"

\* if analyse_data is None: error payload, emit, return
AnalyseUnavailable ==
    /\ worker = "analysis"
    /\ wpc = "start"
    /\ ~analyse_data_ok
    /\ payload' = Put(payload, "error", "analyse_data module unavailable.")
    /\ Emit(payload')
    /\ wpc' = "done"
    /\ UNCHANGED <<worker, analyse_data_ok, improvised_rag_ok, forecast_ok,
                   result, rag_text>>
    /\ UNCHANGED pvars
    /\ UNCHANGED notWorker

\* analyse_data.analyse_skin_concern(...) returns
AnalyseOk ==
    /\ worker = "analysis"
    /\ wpc = "start"
    /\ analyse_data_ok
    /\ result' \in AnalysisResults
    /\ wpc' = "texts"
    /\ UNCHANGED <<worker, analyse_data_ok, improvised_rag_ok, forecast_ok,
                   rag_text, payload, emitted>>
    /\ UNCHANGED pvars
    /\ UNCHANGED notWorker

\* analyse_data.analyse_skin_concern(...) raises: error payload, emit, return
AnalyseFail ==
    /\ worker = "analysis"
    /\ wpc = "start"
    /\ analyse_data_ok
    /\ payload' = Put(payload, "error", "Error in analyse_data")
    /\ Emit(payload')
    /\ wpc' = "done"
    /\ UNCHANGED <<worker, analyse_data_ok, improvised_rag_ok, forecast_ok,
                   result, rag_text>>
    /\ failed' = "analyse"
    /\ UNCHANGED <<labels, handled>>
    /\ UNCHANGED notWorker

\* graph_text, analysis_text and their payload entries
AnalysisTexts ==
    /\ worker = "analysis"
    /\ wpc = "texts"
    /\ payload' = Put(Put(payload, "graph_text",
                          IF result.graph_data # <<>>
                          THEN Join(result.graph_data)
                          ELSE <<"No related graph data found.">>),
                      "analysis_text", result.analysis)
    /\ wpc' = "rag"
    /\ UNCHANGED <<worker, analyse_data_ok, improvised_rag_ok, forecast_ok,
                   result, rag_text, emitted>>
    /\ UNCHANGED pvars
    /\ UNCHANGED notWorker

\* A variant of RagUnavailable without its return: run goes on to the emit at
\* the end of the method.
RagUnavailableNoReturn ==
    /\ worker = "analysis"
    /\ wpc = "rag"
    /\ ~improvised_rag_ok
    /\ payload' = Put(payload, "rag_sections",
                      [answer |-> <<"RAG module unavailable.">>,
                       suggestions |-> <<>>, sources |-> <<>>])
    /\ Emit(payload')
    /\ wpc' = "emit"
    /\ UNCHANGED <<worker, analyse_data_ok, improvised_rag_ok, forecast_ok,
                   result, rag_text>>
    /\ UNCHANGED pvars
    /\ UNCHANGED notWorker

\* if improvised_rag is None: placeholder sections, emit, return
RagUnavailable ==
    /\ worker = "analysis"
    /\ wpc = "rag"
    /\ ~improvised_rag_ok
    /\ payload' = Put(payload, "rag_sections",
                      [answer |-> <<"RAG module unavailable.">>,
                       suggestions |-> <<>>, sources |-> <<>>])
    /\ Emit(payload')
    /\ wpc' = "done"
    /\ UNCHANGED <<worker, analyse_data_ok, improvised_rag_ok, forecast_ok,
                   result, rag_text>>
    /\ UNCHANGED pvars
    /\ UNCHANGED notWorker

\* improvised_rag.retrieve and build_prompt return
RagRetrieve ==
    /\ worker = "analysis"
    /\ wpc = "rag"
    /\ improvised_rag_ok
    /\ wpc' = "chat"
    /\ UNCHANGED <<worker, analyse_data_ok, improvised_rag_ok, forecast_ok,
                   result, rag_text, payload, emitted>>
    /\ UNCHANGED pvars
    /\ UNCHANGED notWorker

\* call_chat_model returns; the text is parsed into the four sections
RagChat ==
    /\ worker = "analysis"
    /\ wpc = "chat"
    /\ rag_text' \in {Some(t) : t \in RagTexts}
    /\ payload' = Put(payload, "rag_sections", parse_sections(rag_text'[1]))
    /\ wpc' = "emit"
    /\ UNCHANGED <<worker, analyse_data_ok, improvised_rag_ok, forecast_ok,
                   result, emitted>>
    /\ UNCHANGED pvars
    /\ UNCHANGED notWorker

\* retrieve, build_prompt or call_chat_model raises: except Exception as e
RagFail ==
    /\ worker = "analysis"
    /\ wpc \in {"rag", "chat"}
    /\ improvised_rag_ok
    /\ payload' = Put(payload, "rag_sections",
                      [answer |-> <<"Error running RAG">>,
                       suggestions |-> <<>>, sources |-> <<>>])
    /\ wpc' = "emit"
    /\ UNCHANGED <<worker, analyse_data_ok, improvised_rag_ok, forecast_ok,
                   result, rag_text, emitted>>
    /\ failed' = "rag"
    /\ UNCHANGED <<labels, handled>>
    /\ UNCHANGED notWorker

\* self.finished.emit(payload) at the end of either run
EmitPayload ==
    /\ wpc = "emit"
    /\ Emit(payload)
    /\ wpc' = "done"
    /\ UNCHANGED <<worker, analyse_data_ok, improvised_rag_ok, forecast_ok,
                   result, rag_text, payload>>
    /\ UNCHANGED pvars
    /\ UNCHANGED notWorker

\* if forecast is None: error payload, emit, return
ForecastUnavailable ==
    /\ worker = "forecast"
    /\ wpc = "start"
    /\ ~forecast_ok
    /\ payload' = Put(payload, "error", "forecast module unavailable.")
    /\ Emit(payload')
    /\ wpc' = "done"
    /\ UNCHANGED <<worker, analyse_data_ok, improvised_rag_ok, forecast_ok,
                   result, rag_text>>
    /\ UNCHANGED pvars
    /\ UNCHANGED notWorker

\* forecast.run_forecasting_pipeline(...) returns ts and forecast_result
ForecastPipeline ==
    /\ worker = "forecast"
    /\ wpc = "start"
    /\ forecast_ok
    /\ result' \in {[ts |-> <<3, 4>>, forecast |-> <<5>>],
                    [ts |-> <<3, 4>>, forecast |-> <<2>>]}
    /\ wpc' = "plot"
    /\ UNCHANGED <<worker, analyse_data_ok, improvised_rag_ok, forecast_ok,
                   rag_text, payload, emitted>>
    /\ UNCHANGED pvars
    /\ UNCHANGED notWorker

\* The chart is drawn: plt.subplots ... fig.tight_layout()
ForecastPlot ==
    /\ worker = "forecast"
    /\ wpc = "plot"
    /\ wpc' = "insight"
    /\ UNCHANGED <<worker, analyse_data_ok, improvised_rag_ok, forecast_ok,
                   result, rag_text, payload, emitted>>
    /\ UNCHANGED pvars
    /\ UNCHANGED notWorker

\* The insight is computed, then figure, insight and forecast_data are stored
ForecastStore ==
    /\ worker = "forecast"
    /\ wpc = "insight"
    /\ payload' = Put(Put(Put(payload, "figure", "fig"),
                          "insight",
                          IF result.forecast[1] * Len(result.ts)
                                > result.ts[1] + result.ts[2]
                          THEN "Predicted to increase"
                          ELSE "Predicted to decrease"),
                      "forecast_data", result)
    /\ wpc' = "emit"
    /\ UNCHANGED <<worker, analyse_data_ok, improvised_rag_ok, forecast_ok,
                   result, rag_text, emitted>>
    /\ UNCHANGED pvars
    /\ UNCHANGED notWorker

\* A variant of ForecastFail for a run that stored the figure right after
\* drawing it.
ForecastFailAfterFigure ==
    /\ worker = "forecast"
    /\ wpc \in {"start", "plot", "insight"}
    /\ forecast_ok
    /\ payload' = Put(IF wpc = "insight" THEN Put(payload, "figure", "fig")
                      ELSE payload,
                      "error", "Error running forecast")
    /\ Emit(payload')
    /\ wpc' = "done"
    /\ UNCHANGED <<worker, analyse_data_ok, improvised_rag_ok, forecast_ok,
                   result, rag_text>>
    /\ failed' = "forecast"
    /\ UNCHANGED <<labels, handled>>
    /\ UNCHANGED notWorker

\* The pipeline, the drawing or the insight raises: error payload, emit, return
ForecastFail ==
    /\ worker = "forecast"
    /\ wpc \in {"start", "plot", "insight"}
    /\ forecast_ok
    /\ payload' = Put(payload, "error", "Error running forecast")
    /\ Emit(payload')
    /\ wpc' = "done"
    /\ UNCHANGED <<worker, analyse_data_ok, improvised_rag_ok, forecast_ok,
                   result, rag_text>>
    /\ failed' = "forecast"
    /\ UNCHANGED <<labels, handled>>
    /\ UNCHANGED notWorker

\* d.get(key, default)
Get(d, key, default) == IF key \in DOMAIN d THEN d[key] ELSE default

\* ThirdPage.update_from_payload
update_from_payload(l, p) ==
    IF DOMAIN p = {} THEN l
    ELSE LET rag_sections == Get(p, "rag_sections", <<>>) IN
         [l EXCEPT
            !.summary_label = <<"Summary:\n\n">>
                              \o Get(rag_sections, "answer", <<>>),
            !.suggestions_label = <<"Product Improvement Suggestions:\n\n">>
                              \o Get(rag_sections, "suggestions", <<>>),
            !.sources_label = <<"Sources:\n\n">>
                              \o Get(rag_sections, "sources", <<>>),
            !.marketing_label = <<"Marketing:\n\n">>
                              \o Get(rag_sections, "marketing", <<>>)]

\* A variant of on_analysis_finished that shows the results of an error payload.
on_analysis_finished_ignores_error(l, p) ==
    update_from_payload(
        [l EXCEPT !.status_label = "",
                  !.concerns_text = <<"Graph Data:\n">>
                        \o Get(p, "graph_text", <<>>)
                        \o <<"\n\nAnalysis:\n", Get(p, "analysis_text", "")>>],
        p)

\* SecondPage._on_analysis_finished(payload): the labels afterwards
on_analysis_finished(l, p) ==
    IF DOMAIN p = {}
    THEN [l EXCEPT !.status_label = "",
                   !.concerns_text = <<"No results returned.">>]
    ELSE IF Get(p, "error", "") # ""
    THEN [l EXCEPT !.status_label = "",
                   !.concerns_text = <<"Error: ", p["error"]>>]
    ELSE update_from_payload(
            [l EXCEPT !.status_label = "",
                      !.concerns_text = <<"Graph Data:\n">>
                            \o Get(p, "graph_text", <<>>)
                            \o <<"\n\nAnalysis:\n", Get(p, "analysis_text", "")>>],
            p)

\* ForecastPage._on_forecast_finished(payload): the labels afterwards
on_forecast_finished(l, p) ==
    IF DOMAIN p = {}
    THEN [l EXCEPT !.forecast_status_label = "",
                   !.insight_label = <<"No forecast results returned.">>]
    ELSE IF Get(p, "error", "") # ""
    THEN [l EXCEPT !.forecast_status_label = "",
                   !.insight_label = <<"Error: ", p["error"]>>]
    ELSE [l EXCEPT !.forecast_status_label = "",
                   !.chart_canvas = IF "figure" \in DOMAIN p
                                    THEN Some(p["figure"]) ELSE None,
                   !.insight_label = <<Get(p, "insight", "")>>]

\* The slot connected to finished runs in the GUI thread for the next payload
OnFinished ==
    /\ handled < Len(emitted)
    /\ labels' = IF worker = "analysis"
                 THEN on_analysis_finished(labels, emitted[handled + 1])
                 ELSE on_forecast_finished(labels, emitted[handled + 1])
    /\ handled' = handled + 1
    /\ UNCHANGED <<failed, wvars>>
    /\ UNCHANGED notWorker

WorkerNext ==
    \/ AnalyseUnavailable
    \/ AnalyseOk
    \/ AnalyseFail
    \/ AnalysisTexts
    \/ RagUnavailable
    \/ RagRetrieve
    \/ RagChat
    \/ RagFail
    \/ EmitPayload
    \/ ForecastUnavailable
    \/ ForecastPipeline
    \/ ForecastPlot
    \/ ForecastStore
    \/ ForecastFail
    \/ OnFinished

WorkerSpec == WorkerInit /\ [][WorkerNext]_vars

----------------------------------------------------------------------------
(* GUI: MainWindow, its four pages and the workers they start               *)
(* A worker thread is followed from start() to the emit of its payload as   *)
(* one step (run, given the outcomes of its backend calls); the slot runs   *)
(* later in the GUI thread, in the order of the emits.                      *)

Ngrams == {"A", "B"}

\* f"Analyzing '{ngram}' ..." and f"Forecasting trend for '{ngram}' ..."
Analyzing(ngram) == IF ngram = "A" THEN "Analyzing 'A' ..." ELSE "Analyzing 'B' ..."
Forecasting(ngram) ==
    IF ngram = "A" THEN "Forecasting trend for 'A' ..."
    ELSE "Forecasting trend for 'B' ..."

\* AnalysisWorker.run for the n-gram, given which backend call raises, if any:
\* the payload it emits
run_analysis(ngram, outcome) ==
    IF ~analyse_data_ok
    THEN Put(<<>>, "error", "analyse_data module unavailable.")
    ELSE IF outcome = "analyse_raises"
    THEN Put(<<>>, "error", "Error in analyse_data")
    ELSE LET texts_in == Put(Put(<<>>, "graph_text", Join(<<ngram>>)),
                             "analysis_text", ngram)
         IN  IF ~improvised_rag_ok
             THEN Put(texts_in, "rag_sections",
                      [answer |-> <<"RAG module unavailable.">>,
                       suggestions |-> <<>>, sources |-> <<>>])
             ELSE IF outcome = "rag_raises"
             THEN Put(texts_in, "rag_sections",
                      [answer |-> <<"Error running RAG">>,
                       suggestions |-> <<>>, sources |-> <<>>])
             ELSE Put(texts_in, "rag_sections",
                      parse_sections(FormatOutput(ngram, ngram, ngram, ngram)))

\* ForecastWorker.run for the n-gram: the payload it emits
run_forecast(ngram, outcome) ==
    IF ~forecast_ok
    THEN Put(<<>>, "error", "forecast module unavailable.")
    ELSE IF outcome = "forecast_raises"
    THEN Put(<<>>, "error", "Error running forecast")
    ELSE Put(Put(Put(<<>>, "figure", ngram), "insight", ngram),
             "forecast_data", ngram)

\* The outcomes of the backend calls of a worker, and the calls it makes then
Outcomes(kind) ==
    IF kind = "forecast" THEN {"ok", "forecast_raises"}
    ELSE IF improvised_rag_ok THEN {"ok", "analyse_raises", "rag_raises"}
    ELSE {"ok", "analyse_raises"}

CallsOf(kind, outcome) ==
    IF kind = "forecast"
    THEN IF forecast_ok THEN {"run_forecasting_pipeline"} ELSE {}
    ELSE IF ~analyse_data_ok THEN {}
    ELSE IF outcome = "analyse_raises" \/ ~improvised_rag_ok
    THEN {"analyse_skin_concern"}
    ELSE {"analyse_skin_concern", "retrieve"}

Worker(kind, ngram) ==
    [kind |-> kind, ngram |-> ngram, state |-> "running", payload |-> <<>>]

GuiInit ==
    /\ IndexerIdle
    /\ RetrieverIdle
    /\ GraphIdle
    /\ ChunkerIdle
    /\ PagesIdle
    /\ wpc = "idle"
    /\ worker = "none"
    /\ analyse_data_ok \in BOOLEAN
    /\ improvised_rag_ok \in BOOLEAN
    /\ forecast_ok \in BOOLEAN
    /\ result = <<>>
    /\ rag_text = None
    /\ payload = <<>>
    /\ emitted = <<>>
    /\ GuiIdle
    /\ CrawlerIdle

\* BubbleChartPage.on_click: a bubble is selected
OnClick ==
    /\ current_index = 0
    /\ \E ngram \in Ngrams : selected_ngram' = ngram
    /\ UNCHANGED <<current_index, workers, queue, page2_worker, page4_worker,
                   calls, labels>>
    /\ UNCHANGED notGui

\* A variant of GoNext whose update_concerns does not test analyse_data.
GoNextWithoutModuleTest ==
    /\ current_index = 0
    /\ selected_ngram # "none" => Len(workers) < MaxWorkers
    /\ IF selected_ngram = "none"
       THEN UNCHANGED <<labels, workers, page2_worker>>
       ELSE /\ labels' = [labels EXCEPT
                  !.status_label = Analyzing(selected_ngram)]
            /\ workers' = Append(workers, Worker("analysis", selected_ngram))
            /\ page2_worker' = Len(workers) + 1
    /\ current_index' = 1
    /\ UNCHANGED <<selected_ngram, queue, page4_worker, calls>>
    /\ UNCHANGED notGui

\* BubbleChartPage.go_next: update_concerns(selected), then page 1.  A request
\* that would start a worker beyond MaxWorkers is not followed.
GoNext ==
    /\ current_index = 0
    /\ (selected_ngram # "none" /\ analyse_data_ok) => Len(workers) < MaxWorkers
    /\ IF selected_ngram = "none"
       THEN UNCHANGED <<labels, workers, page2_worker>>
       ELSE IF ~analyse_data_ok
       THEN /\ labels' = [labels EXCEPT
                  !.concerns_text = <<"Analysis module unavailable. Selected: ",
                                      selected_ngram>>,
                  !.status_label = ""]
            /\ UNCHANGED <<workers, page2_worker>>
       ELSE /\ labels' = [labels EXCEPT
                  !.status_label = Analyzing(selected_ngram)]
            /\ workers' = Append(workers, Worker("analysis", selected_ngram))
            /\ page2_worker' = Len(workers) + 1
    /\ current_index' = 1
    /\ UNCHANGED <<selected_ngram, queue, page4_worker, calls>>
    /\ UNCHANGED notGui

\* A variant of SecondPage.go_back that cancels the analysis the page waits for.
SecondGoBackCancels ==
    /\ current_index = 1
    /\ current_index' = 0
    /\ workers' = [k \in DOMAIN workers |->
                      IF k = page2_worker /\ workers[k].state = "running"
                      THEN [workers[k] EXCEPT !.state = "cancelled"]
                      ELSE workers[k]]
    /\ UNCHANGED <<selected_ngram, queue, page2_worker, page4_worker,
                   calls, labels>>
    /\ UNCHANGED notGui

\* SecondPage.go_back
SecondGoBack ==
    /\ current_index = 1
    /\ current_index' = 0
    /\ UNCHANGED <<selected_ngram, workers, queue, page2_worker, page4_worker,
                   calls, labels>>
    /\ UNCHANGED notGui

\* SecondPage.go_third
GoThird ==
    /\ current_index = 1
    /\ current_index' = 2
    /\ UNCHANGED <<selected_ngram, workers, queue, page2_worker, page4_worker,
                   calls, labels>>
    /\ UNCHANGED notGui

\* SecondPage.go_forecast: start_forecast(selected), then page 3
GoForecast ==
    /\ current_index = 1
    /\ (selected_ngram # "none" /\ forecast_ok) => Len(workers) < MaxWorkers
    /\ IF selected_ngram = "none"
       THEN UNCHANGED <<labels, workers, page4_worker>>
       ELSE IF ~forecast_ok
       THEN /\ labels' = [labels EXCEPT
                  !.insight_label = <<"Forecast module unavailable.">>,
                  !.forecast_status_label = ""]
            /\ UNCHANGED <<workers, page4_worker>>
       ELSE /\ labels' = [labels EXCEPT
                  !.forecast_status_label = Forecasting(selected_ngram)]
            /\ workers' = Append(workers, Worker("forecast", selected_ngram))
            /\ page4_worker' = Len(workers) + 1
    /\ current_index' = 3
    /\ UNCHANGED <<selected_ngram, queue, page2_worker, calls>>
    /\ UNCHANGED notGui

\* ThirdPage.go_back
ThirdGoBack ==
    /\ current_index = 2
    /\ current_index' = 1
    /\ UNCHANGED <<selected_ngram, workers, queue, page2_worker, page4_worker,
                   calls, labels>>
    /\ UNCHANGED notGui

\* ForecastPage.go_back
ForecastGoBack ==
    /\ current_index = 3
    /\ current_index' = 0
    /\ UNCHANGED <<selected_ngram, workers, queue, page2_worker, page4_worker,
                   calls, labels>>
    /\ UNCHANGED notGui

\* The thread of a started worker runs run up to the emit of its payload
WorkerRun ==
    /\ \E k \in DOMAIN workers :
          /\ workers[k].state = "running"
          /\ \E outcome \in Outcomes(workers[k].kind) :
                /\ workers' = [workers EXCEPT
                      ![k].state = "emitted",
                      ![k].payload =
                          IF workers[k].kind = "analysis"
                          THEN run_analysis(workers[k].ngram, outcome)
                          ELSE run_forecast(workers[k].ngram, outcome)]
                /\ calls' = calls \cup CallsOf(workers[k].kind, outcome)
          /\ queue' = Append(queue, k)
    /\ UNCHANGED <<current_index, selected_ngram, page2_worker, page4_worker,
                   labels>>
    /\ UNCHANGED notGui

\* A variant of Deliver that drops the payload of a worker the page no longer
\* refers to.
DeliverOnlyTracked ==
    /\ queue # <<>>
    /\ LET k == Head(queue)
       IN  /\ labels' = IF k \notin {page2_worker, page4_worker} THEN labels
                        ELSE IF workers[k].kind = "analysis"
                        THEN on_analysis_finished(labels, workers[k].payload)
                        ELSE on_forecast_finished(labels, workers[k].payload)
           /\ workers' = [workers EXCEPT ![k].state = "handled"]
    /\ queue' = Tail(queue)
    /\ UNCHANGED <<current_index, selected_ngram, page2_worker, page4_worker,
                   calls>>
    /\ UNCHANGED notGui

\* The GUI thread runs the slot for the oldest waiting finished signal
Deliver ==
    /\ queue # <<>>
    /\ LET k == Head(queue)
       IN  /\ labels' = IF workers[k].kind = "analysis"
                        THEN on_analysis_finished(labels, workers[k].payload)
                        ELSE on_forecast_finished(labels, workers[k].payload)
           /\ workers' = [workers EXCEPT ![k].state = "handled"]
    /\ queue' = Tail(queue)
    /\ UNCHANGED <<current_index, selected_ngram, page2_worker, page4_worker,
                   calls>>
    /\ UNCHANGED notGui

GuiNext ==
    \/ OnClick
    \/ GoNext
    \/ SecondGoBack
    \/ GoThird
    \/ GoForecast
    \/ ThirdGoBack
    \/ ForecastGoBack
    \/ WorkerRun
    \/ Deliver

GuiSpec == GuiInit /\ [][GuiNext]_vars

\* Every started thread is scheduled and the event loop of the GUI thread runs
FairGuiSpec == GuiSpec /\ WF_vars(WorkerRun) /\ WF_vars(Deliver)


----------------------------------------------------------------------------
(* Product crawler: eucerin_data.py.  A run is main with its workers; the   *)
(* files stay on disk from one run to the next.  A worker is followed from  *)
(* one await to the next: taking a URL from the queue with the test of      *)
(* seen_urls, then the fetch with the write of the record.                  *)

\* The sources of the lines of a file: what main adds to seen_urls for it (a
\* file that does not exist gives nothing, like an empty one)
SourcesOf(name) == {files[name][k] : k \in DOMAIN files[name]}

CrawlInit ==
    /\ IndexerIdle
    /\ RetrieverIdle
    /\ WorkerIdle
    /\ PagesIdle
    /\ GraphIdle
    /\ ChunkerIdle
    /\ GuiIdle
    /\ CrawlerIdle

\* main(output_file, resume): with resume the sources of the lines of
\* output_file go to seen_urls; then the URLs found are put on the queue for
\* the workers.  A run starts when the one before has ended.
CrawlMain ==
    /\ runs < MaxRuns
    /\ url_queue = <<>>
    /\ \A w \in WorkerNames : fetching[w] = "none"
    /\ runs' = runs + 1
    /\ \E r \in BOOLEAN, name \in FileNames :
          /\ resume' = r
          /\ output_file' = name
          /\ seen_urls' = IF r THEN SourcesOf(name) ELSE {}
    /\ url_queue' \in UNION {[1..n -> Urls] : n \in 1..MaxQueue}
    /\ fetched' = {}
    /\ recorded' = UNION {SourcesOf(name) : name \in FileNames}
    /\ UNCHANGED <<files, fetching>>
    /\ UNCHANGED notCrawler

\* worker: url = await queue.get(); if url in seen_urls: continue; else on to
\* the sleep and the fetch
CrawlWorkerGet ==
    /\ runs > 0
    /\ url_queue # <<>>
    /\ \E w \in WorkerNames :
          /\ fetching[w] = "none"
          /\ fetching' = IF Head(url_queue) \in seen_urls THEN fetching
                         ELSE [fetching EXCEPT ![w] = Head(url_queue)]
    /\ url_queue' = Tail(url_queue)
    /\ UNCHANGED <<runs, resume, output_file, files, seen_urls, fetched, recorded>>
    /\ UNCHANGED notCrawler

\* worker: content = await fetch_page_content(...); if content: the record,
\* with the URL as source, is appended to "full.txt" and the URL added to
\* seen_urls
CrawlWorkerFetch ==
    /\ \E w \in WorkerNames :
          /\ fetching[w] # "none"
          /\ fetched' = fetched \cup {fetching[w]}
          /\ \E page_content \in BOOLEAN :
                IF page_content
                THEN /\ files' = [files EXCEPT !["full.txt"] = Append(@, fetching[w])]
                     /\ seen_urls' = seen_urls \cup {fetching[w]}
                ELSE UNCHANGED <<files, seen_urls>>
          /\ fetching' = [fetching EXCEPT ![w] = "none"]
    /\ UNCHANGED <<runs, resume, output_file, url_queue, recorded>>
    /\ UNCHANGED notCrawler

CrawlNext ==
    \/ CrawlMain
    \/ CrawlWorkerGet
    \/ CrawlWorkerFetch

CrawlSpec == CrawlInit /\ [][CrawlNext]_vars

----------------------------------------------------------------------------
(* Graph builder: build_graph.py *)

\* The value of a key of a triple record in the parsed JSON: a text, null, or
\* no such key
Str(t) == [type |-> "string", text |-> t]
Null == [type |-> "null", text |-> <<>>]
Missing == [type |-> "missing", text |-> <<>>]

\* An element of the parsed JSON: a record with the three keys, or a value
\* that is no record (a text, a number)
Record(s, r, o) == [type |-> "object", subject |-> s, relation |-> r, object |-> o]
NoRecord(type) == [type |-> type, subject |-> Missing, relation |-> Missing,
                   object |-> Missing]

Items ==
    {Record(s, r, o) : s \in {Str(<<" ", "a">>), Str(<<"b">>), Str(<<" ">>)},
                       r \in {Str(<<"r">>), Str(<<"s", " ">>), Missing},
                       o \in {Str(<<"b", " ">>), Null}}
    \cup {NoRecord("string"), NoRecord("number")}

\* What json.loads(content) can give: a list of elements; a dictionary or a
\* text (items: what iterating it yields, keys or characters); a number; null
JsonValues ==
    {[shape |-> "list", items |-> l] :
        l \in {<<>>} \cup {<<t>> : t \in Items}
                     \cup {<<t, u>> : t \in Items, u \in Items}}
    \cup {[shape |-> "object", items |-> <<>>],
          [shape |-> "object",
           items |-> <<NoRecord("string"), NoRecord("string"), NoRecord("string")>>],
          [shape |-> "string", items |-> <<>>],
          [shape |-> "string", items |-> <<NoRecord("string")>>],
          [shape |-> "number", items |-> <<>>],
          [shape |-> "null", items |-> <<>>]}

\* What the chat call of extract_triples can give: an exception, a content
\* that is not JSON, a content that is JSON
ChatOutputs ==
    {[shape |-> "chat_raises", items |-> <<>>],
     [shape |-> "not_json", items |-> <<>>]} \cup JsonValues

\* extract_triples(text_block): what it returns for a chat output
extract_triples(out) ==
    IF out.shape \in {"chat_raises", "not_json"} THEN EmptyList ELSE out

\* t.get(key, "").strip(): the text, or "raises" when the value has no strip
GetStripped(field) ==
    IF field.type = "missing" THEN <<>>
    ELSE IF field.type = "string" THEN Strip(field.text)
    ELSE "raises"

\* A variant of AddTriple that keeps the relation an edge already has.
AddTripleKeepsFirstRelation(g, t) ==
    IF t.type # "object" THEN [g EXCEPT !.raised = TRUE]
    ELSE IF \E f \in {t.subject, t.relation, t.object} : f.type = "null"
         THEN [g EXCEPT !.raised = TRUE]
    ELSE LET subj == GetStripped(t.subject)
             rel == GetStripped(t.relation)
             obj == GetStripped(t.object)
         IN  IF subj = <<>> \/ obj = <<>> \/ rel = <<>> THEN g
             ELSE [g EXCEPT !.nodes = @ \cup {subj, obj},
                            !.edges = @ @@ (<<subj, obj>> :> rel)]

\* One pass of the loop of triples_to_graph, for the element t
AddTriple(g, t) ==
    IF t.type # "object" THEN [g EXCEPT !.raised = TRUE]
    ELSE IF \E f \in {t.subject, t.relation, t.object} : f.type = "null"
         THEN [g EXCEPT !.raised = TRUE]
    ELSE LET subj == GetStripped(t.subject)
             rel == GetStripped(t.relation)
             obj == GetStripped(t.object)
         IN  IF subj = <<>> \/ obj = <<>> \/ rel = <<>> THEN g
             ELSE [g EXCEPT !.nodes = @ \cup {subj, obj},
                            !.edges = (<<subj, obj>> :> rel) @@ @]

\* for t in triples: ..., until an element raises
RECURSIVE triples_loop(_, _)
triples_loop(g, ts) ==
    IF g.raised \/ ts = <<>> THEN g
    ELSE triples_loop(AddTriple(g, ts[1]), Tail(ts))

\* triples_to_graph(triples, graph): the graph afterwards, and whether the call
\* raised (a number and null cannot be iterated)
triples_to_graph(tr, gr) ==
    IF tr.shape \in {"number", "null"}
    THEN [nodes |-> gr.nodes, edges |-> gr.edges, raised |-> TRUE]
    ELSE triples_loop([nodes |-> gr.nodes, edges |-> gr.edges, raised |-> FALSE],
                      tr.items)

GraphInit ==
    /\ IndexerIdle
    /\ RetrieverIdle
    /\ WorkerIdle
    /\ PagesIdle
    /\ ChunkerIdle
    /\ GuiIdle
    /\ CrawlerIdle
    /\ gpc = "extract"
    /\ todo \in 0..MaxGraphChunks
    /\ content = EmptyList
    /\ triples = EmptyList
    /\ graph = EmptyGraph

\* triples = extract_triples(chunk)
ExtractTriples ==
    /\ gpc = "extract"
    /\ todo > 0
    /\ \E out \in ChatOutputs :
          /\ content' = out
          /\ triples' = extract_triples(out)
    /\ gpc' = "graph"
    /\ UNCHANGED <<todo, graph>>
    /\ UNCHANGED notGraph

\* graph = triples_to_graph(triples, graph, source="csv"); an exception leaves
\* build_graph_from_csv
TriplesToGraph ==
    /\ gpc = "graph"
    /\ LET g == triples_to_graph(triples, graph)
       IN  /\ graph' = [nodes |-> g.nodes, edges |-> g.edges]
           /\ gpc' = IF g.raised THEN "raised" ELSE "extract"
           /\ todo' = IF g.raised THEN todo ELSE todo - 1
    /\ UNCHANGED <<content, triples>>
    /\ UNCHANGED notGraph

\* return graph, after the last chunk of the last row
GraphReturn ==
    /\ gpc = "extract"
    /\ todo = 0
    /\ gpc' = "returned"
    /\ UNCHANGED <<todo, content, triples, graph>>
    /\ UNCHANGED notGraph

GraphNext ==
    \/ ExtractTriples
    \/ TriplesToGraph
    \/ GraphReturn

GraphSpec == GraphInit /\ [][GraphNext]_vars

----------------------------------------------------------------------------
(* Chunker: build_faiss_index.py chunk_text *)

Chars == {"a", "b", " "}
Texts == UNION {[1..n -> Chars] : n \in 0..MaxTextLen}

\* len(text)
L == Len(text[1])

\* not text: the text is None or empty
NotText == IF text = None THEN TRUE ELSE text[1] = <<>>

\* A variant of stripped_chunk without strip.
unstripped_chunk(t, from, to) == Slice(t, from, to)

\* text[start:end].strip()
stripped_chunk(t, from, to) == Strip(Slice(t, from, to))

\* A variant of next_start that goes on at the end of the chunk.
next_start_ignores_overlap(end, o) == IF end < 0 THEN 0 ELSE end

\* A variant of next_start for a chunk_text that goes on at the end of the
\* chunk when the overlap is not smaller than the chunk size.
next_start_checks_overlap(end, o) ==
    IF o >= size THEN end ELSE IF end - o < 0 THEN 0 ELSE end - o

\* start = end - overlap; if start < 0: start = 0
next_start(end, o) == IF end - o < 0 THEN 0 ELSE end - o

ChunkInit ==
    /\ IndexerIdle
    /\ RetrieverIdle
    /\ WorkerIdle
    /\ PagesIdle
    /\ GraphIdle
    /\ GuiIdle
    /\ CrawlerIdle
    /\ cpc = "start"
    /\ text \in {None} \cup {Some(t) : t \in Texts}
    /\ size \in 1..MaxSize
    /\ overlap \in 0..MaxSize
    /\ start = 0
    /\ chunks = <<>>
    /\ origins = <<>>

\* if not text: return []
ChunkNoText ==
    /\ cpc = "start"
    /\ NotText
    /\ cpc' = "returned"
    /\ UNCHANGED <<text, size, overlap, start, chunks, origins>>
    /\ UNCHANGED notChunker

\* chunks = []; start = 0; L = len(text); the first test of the while
ChunkEnter ==
    /\ cpc = "start"
    /\ ~NotText
    /\ cpc' = "loop"
    /\ UNCHANGED <<text, size, overlap, start, chunks, origins>>
    /\ UNCHANGED notChunker

\* A variant of ChunkStep that keeps the cursor after a window of white space.
ChunkStepWaitsOnWhiteSpace ==
    /\ cpc = "loop"
    /\ start < L
    /\ Len(chunks) <= MaxTextLen
    /\ LET end == start + size
           chunk == stripped_chunk(text[1], start, end)
           next == IF chunk # <<>> THEN next_start(end, overlap) ELSE start
       IN  /\ chunks' = IF chunk # <<>> THEN Append(chunks, chunk) ELSE chunks
           /\ origins' = IF chunk # <<>> THEN Append(origins, start) ELSE origins
           /\ start' = next
           /\ cpc' = IF next >= L THEN "returned" ELSE "loop"
    /\ UNCHANGED <<text, size, overlap>>
    /\ UNCHANGED notChunker

\* One pass of the while loop; the break, and the test that ends the loop,
\* lead to "return chunks".  A call that does not end is followed as long as
\* the list has at most MaxTextLen chunks.
ChunkStep ==
    /\ cpc = "loop"
    /\ start < L
    /\ Len(chunks) <= MaxTextLen
    /\ LET end == start + size
           chunk == stripped_chunk(text[1], start, end)
           next == next_start(end, overlap)
       IN  /\ chunks' = IF chunk # <<>> THEN Append(chunks, chunk) ELSE chunks
           /\ origins' = IF chunk # <<>> THEN Append(origins, start) ELSE origins
           /\ start' = next
           /\ cpc' = IF next >= L THEN "returned" ELSE "loop"
    /\ UNCHANGED <<text, size, overlap>>
    /\ UNCHANGED notChunker

ChunkNext ==
    \/ ChunkNoText
    \/ ChunkEnter
    \/ ChunkStep

ChunkSpec == ChunkInit /\ [][ChunkNext]_vars

\* The call is not suspended: a step that can be taken is taken
FairChunkSpec == ChunkSpec /\ WF_vars(ChunkNext)

----------------------------------------------------------------------------
(* Claims about the indexer *)

\* The slots of all_embeddings from offset a (0-based) on
SlotsFrom(a) == {k \in 1..Len(all_embeddings) : k > a}

\* C1: when embedding a text of the current batch fails, the offset i is not
\* advanced and no slot of the batch (nor any later slot) is written, also not
\* for the texts embedded before the failure; after the sleep the loop is
\* entered again at the same offset, and the batch it starts is docs[i:i+BATCH_SIZE]
\* with an empty list of embeddings, so the retry begins at the first text.
C1_FailedBatchRetriedFromItsStart ==
    [][ /\ (ipc = "embedding" /\ ipc' = "sleep") =>
            /\ i' = i
            /\ all_embeddings' = all_embeddings
            /\ \A k \in SlotsFrom(i) : all_embeddings'[k] = None
        /\ (ipc = "sleep") =>
            /\ ipc' = "loop"
            /\ i' = i
            /\ i' < Len(docs)
            /\ all_embeddings' = all_embeddings
        /\ (ipc = "loop" /\ ipc' = "embedding") =>
            /\ i' = i
            /\ embeddings' = <<>>
            /\ Len(texts') = Min(BATCH_SIZE, Len(docs) - i)
            /\ \A k \in 1..Len(texts') : texts'[k] = docs[i + k].text
      ]_vars

\* C1 witness: a call failed after it had embedded a text of a batch that is
\* not the first one.
C1_Witness ==
    /\ ipc = "sleep"
    /\ Len(embeddings) >= 1
    /\ i >= BATCH_SIZE

\* C2: with finitely many failures of the embedding service the run ends, and
\* once the embedding loop is left every slot k of all_embeddings holds the
\* embedding of the text of docs[k]: none is None, none is another chunk's.
C2_LoopEndsWithOwnEmbeddings ==
    /\ <>(ipc = "done")
    /\ [](ipc \in {"write_index", "open_meta", "write_meta"} =>
            /\ Len(all_embeddings) = Len(docs)
            /\ \A k \in 1..Len(docs) :
                all_embeddings[k] = Some(Embed(docs[k].text)))

\* C2 witness: the loop was left after all the failures allowed, several batches
\* and a last batch that is not full.
C2_Witness ==
    /\ ipc = "write_index"
    /\ failures = MaxFailures
    /\ Len(docs) > BATCH_SIZE
    /\ Len(docs) % BATCH_SIZE # 0

\* The ids of the lines of a file
FileIds(f) == [k \in 1..Len(f.lines) |-> f.lines[k].id]

\* C4: whenever the index file exists, every id stored in it has a record in the
\* metadata sidecar written by the same run.
C4_IndexIdsHaveSidecarRecords ==
    index_file.exists =>
        \A k \in 1..Len(index_file.lines) :
            /\ meta_file.exists
            /\ \E m \in 1..Len(meta_file.lines) :
                meta_file.lines[m].id = index_file.lines[k].id

\* C5: chunk ids are 1..N in creation order: the k-th chunk has id k, chunks are
\* in the order of their products and of their position in the product, a
\* product without chunks takes no id, and the index and the sidecar get the
\* same ids in the same order.
C5_IdsAreOneToNInCreationOrder ==
    /\ \A k \in 1..Len(docs) : docs[k].id = k
    /\ next_id = Len(docs) + 1
    /\ \A a, b \in 1..Len(docs) : a < b =>
        \/ docs[a].text.product < docs[b].text.product
        \/ /\ docs[a].text.product = docs[b].text.product
           /\ docs[a].text.chunk < docs[b].text.chunk
    /\ index_file.exists => FileIds(index_file) = [k \in 1..Len(docs) |-> k]
    /\ \A m \in 1..Len(meta_file.lines) : meta_file.lines[m].id = m
    /\ ipc = "done" /\ meta_file.exists =>
        FileIds(meta_file) = FileIds(index_file)

\* C5 witness: a finished run whose input has a product without chunks before a
\* product with chunks.
C5_Witness ==
    /\ ipc = "done"
    /\ meta_file.exists
    /\ Len(docs) >= 3
    /\ \E p, q \in 1..Len(input) : p < q /\ input[p] = 0 /\ input[q] > 0

----------------------------------------------------------------------------
(* Claims about the retriever *)

\* The slots of the search result that retrieve keeps: id not -1 and in the
\* metadata mapping
KeptSlots == {k \in 1..Len(I) : I[k] # -1 /\ I[k] \in DOMAIN metadata}

\* C3: retrieve drops every slot whose id is -1 and every id without a record in
\* the metadata mapping and returns one hit for each remaining slot; with
\* metadata ids {1, 2} and the search result [1, 3, -1] it returns exactly one
\* hit, the one with id 1.
C3_RetrieveDropsUnknownIds ==
    rpc = "returned" =>
        /\ Len(hits) = Cardinality(KeptSlots)
        /\ \A h \in 1..Len(hits) :
            hits[h].id # -1 /\ hits[h].id \in DOMAIN metadata
        /\ \A k \in KeptSlots : \E h \in 1..Len(hits) : hits[h].id = I[k]
        /\ (DOMAIN metadata = {1, 2} /\ I = <<1, 3, -1>>) =>
            (Len(hits) = 1 /\ hits[1].id = 1)

\* C3 witness: the scenario of the claim
C3_Witness ==
    /\ rpc = "returned"
    /\ DOMAIN metadata = {1, 2}
    /\ I = <<1, 3, -1>>
    /\ Len(hits) = 1

----------------------------------------------------------------------------
(* Claims about the GUI workers and the answer parser *)

SectionKeys == {"answer", "suggestions", "sources", "marketing"}

\* The run parsed a chat output into payload['rag_sections']
Parsed == wpc \in {"emit", "done"} /\ rag_text # None

\* C6: when the chat output follows the format build_prompt asks for, each of
\* answer, suggestions, marketing and sources is exactly the body under its own
\* heading.
C6_FormatSectionsAreOwnBodies ==
    Parsed /\ rag_text[1] \in FormatOutputs =>
        \E a, b, c, d \in BodyWords :
            /\ rag_text[1] = FormatOutput(a, b, c, d)
            /\ payload["rag_sections"].answer = <<a>>
            /\ payload["rag_sections"].suggestions = <<b>>
            /\ payload["rag_sections"].marketing = <<c>>
            /\ payload["rag_sections"].sources = <<d>>

\* C7: every rag_sections dictionary a worker emits has the four keys answer,
\* suggestions, sources and marketing.
C7_EmittedSectionsHaveFourKeys ==
    \A k \in 1..Len(emitted) :
        "rag_sections" \in DOMAIN emitted[k] =>
            DOMAIN emitted[k]["rag_sections"] = SectionKeys

\* The positions of t where a secondary heading (Product Improvement
\* Suggestions, Sources) is matched, and those of the two kinds
SecondaryStarts(t) == {p \in 1..Len(t) : SecondaryEnd(t, p) # 0}
SourcesStarts(t) == {p \in 1..Len(t) : HeadingEnd(t, p, SOURCES) # 0}

\* The three headings of the primary expression occur in sequence
PrimaryMatches(t) ==
    \E a, p, c \in 1..Len(t) :
        /\ HeadingEnd(t, a, ANSWER) # 0
        /\ HeadingEnd(t, p, PIS) # 0
        /\ HeadingEnd(t, c, SOURCES) # 0
        /\ HeadingEnd(t, a, ANSWER) <= p
        /\ HeadingEnd(t, p, PIS) <= c

\* The n-th element of a set of positions, in increasing order
Nth(S, n) == CHOOSE p \in S : Cardinality({q \in S : q < p}) = n - 1

\* The n-th segment of t between secondary headings (n = 1: before the first)
Segment(t, n) ==
    LET S == SecondaryStarts(t)
        from == IF n = 1 THEN 1 ELSE SecondaryEnd(t, Nth(S, n - 1))
        to == IF Cardinality(S) >= n THEN Nth(S, n) - 1 ELSE Len(t)
    IN  SubSeq(t, from, to)

\* C8: when the primary expression does not match, the text is split on the two
\* secondary headings and the segments are assigned by position: answer is the
\* first, suggestions the second or empty, sources the third or empty. So a text
\* without a Sources heading, with one suggestions heading that has text before
\* and after it, gives non-empty answer and suggestions and empty sources, and a
\* text without secondary heading gives the whole (stripped) text as answer.
C8_FallbackAssignsSegmentsByPosition ==
    Parsed /\ ~PrimaryMatches(rag_text[1]) =>
        LET t == rag_text[1]
            sec == payload["rag_sections"]
            n == Cardinality(SecondaryStarts(t))
        IN  /\ sec.answer = Strip(Segment(t, 1))
            /\ sec.suggestions = IF n >= 1 THEN Strip(Segment(t, 2)) ELSE <<>>
            /\ sec.sources = IF n >= 2 THEN Strip(Segment(t, 3)) ELSE <<>>
            /\ n = 0 => sec.answer = Strip(t)
            /\ (/\ SourcesStarts(t) = {}
                /\ n = 1
                /\ Strip(Segment(t, 1)) # <<>>
                /\ Strip(Segment(t, 2)) # <<>>) =>
                    (sec.answer # <<>> /\ sec.suggestions # <<>>
                     /\ sec.sources = <<>>)

\* C8 witness: a parsed output with an answer, the suggestions heading and its
\* body, without Sources heading (and so without a primary match)
C8_Witness ==
    /\ wpc = "done"
    /\ rag_text = Some(BodyLine("x") \o SuggestionsLine \o BodyLine("y"))
    /\ emitted[1]["rag_sections"].answer = <<"x">>
    /\ emitted[1]["rag_sections"].suggestions = <<"y">>
    /\ emitted[1]["rag_sections"].sources = <<>>

\* C9: each run emits finished exactly once on every path: never twice, once
\* when run has returned, and run always goes on until it has returned.
C9_FinishedEmittedExactlyOnce ==
    /\ Len(emitted) <= 1
    /\ wpc = "done" => Len(emitted) = 1
    /\ wpc # "done" => ENABLED WorkerNext

\* C9 witness: a run of the AnalysisWorker that ended without the RAG module
C9_Witness ==
    /\ wpc = "done"
    /\ worker = "analysis"
    /\ ~improvised_rag_ok
    /\ Len(emitted) = 1
    /\ "rag_sections" \in DOMAIN emitted[1]

ResultKeys ==
    {"graph_text", "analysis_text", "rag_sections", "figure", "insight",
     "forecast_data"}

\* The result keys of the worker that runs
OwnResultKeys ==
    IF worker = "analysis" THEN {"graph_text", "analysis_text", "rag_sections"}
    ELSE {"figure", "insight", "forecast_data"}

\* C10: an emitted payload with the key error has no result key, and one
\* without the key error has the result keys of its worker.
C10_ErrorOrResultNeverBoth ==
    \A k \in 1..Len(emitted) :
        IF "error" \in DOMAIN emitted[k]
        THEN DOMAIN emitted[k] \cap ResultKeys = {}
        ELSE OwnResultKeys \subseteq DOMAIN emitted[k]

\* C10 witness: a ForecastWorker whose pipeline returned and that failed while
\* the insight was computed
C10_Witness ==
    /\ wpc = "done"
    /\ worker = "forecast"
    /\ result # <<>>
    /\ Len(emitted) = 1
    /\ "error" \in DOMAIN emitted[1]

\* The text a page shows for an error payload: f"Error: {payload.get('error')}"
ErrorText(p) == <<"Error: ", p["error"]>>

\* C11 as stated: every backend failure in a worker is reported through the
\* error field of the payload, which the page that receives it shows as plain
\* text.
C11_EveryFailureReportedInErrorField ==
    (failed # "none" /\ handled = 1) =>
        /\ "error" \in DOMAIN emitted[1]
        /\ \/ labels.concerns_text = ErrorText(emitted[1])
           \/ labels.insight_label = ErrorText(emitted[1])

\* C11, amended: no failure escapes run (the run still emits its one payload);
\* a failure of the graph analysis or of the forecast is reported in the error
\* field and shown as "Error: ..." with no result shown; a failure of
\* retrieval, prompt building or the chat call is reported in the answer of
\* rag_sections, without an error field, and shown in the summary next to the
\* graph results.
C11_FailuresCaughtAndShown ==
    /\ (failed # "none" /\ wpc = "done") => Len(emitted) = 1
    /\ (failed # "none" /\ wpc # "done") => ENABLED EmitPayload
    /\ (failed = "analyse" /\ handled = 1) =>
          /\ "error" \in DOMAIN emitted[1]
          /\ labels = [InitialLabels EXCEPT
                          !.concerns_text = ErrorText(emitted[1])]
    /\ (failed = "forecast" /\ handled = 1) =>
          /\ "error" \in DOMAIN emitted[1]
          /\ labels = [InitialLabels EXCEPT
                          !.insight_label = ErrorText(emitted[1])]
    /\ (failed = "rag" /\ handled = 1) =>
          /\ "error" \notin DOMAIN emitted[1]
          /\ emitted[1]["rag_sections"]["answer"] = <<"Error running RAG">>
          /\ labels.summary_label = <<"Summary:\n\n", "Error running RAG">>
          /\ labels.concerns_text = <<"Graph Data:\n">>
                 \o emitted[1]["graph_text"]
                 \o <<"\n\nAnalysis:\n", emitted[1]["analysis_text"]>>

C11_Witness ==
    /\ failed = "rag"
    /\ handled = 1
    /\ labels.summary_label = <<"Summary:\n\n", "Error running RAG">>

----------------------------------------------------------------------------
(* Claims about retrieve and build_prompt *)

\* C12: retrieve keeps an empty result and an embedding failure apart.  When
\* the embedding call fails retrieve raises and returns no list; when it
\* succeeds retrieve does not raise, and a search without usable slot (an empty
\* index, for one) makes it return the empty list.
C12_EmptyResultIsNotFailure ==
    /\ rpc = "returned" => ollama_up
    /\ rpc = "raised" => (~ollama_up /\ hits = <<>> /\ I = <<>>)
    /\ ~ollama_up => rpc \in {"start", "raised"}
    /\ (ollama_up /\ rpc \in {"start", "search", "loop"}) => ENABLED RetrieveNext
    /\ (rpc = "returned" /\ KeptSlots = {}) => hits = <<>>
    /\ (rpc = "returned" /\ ranked = <<>>) => hits = <<>>

\* C12 witness: the embedding call failed on a query against an empty index
C12_Witness ==
    /\ rpc = "raised"
    /\ ~ollama_up
    /\ ranked = <<>>

\* The empty index queried with a working embedding service
C12_EmptyIndexReturned ==
    /\ rpc = "returned"
    /\ ranked = <<>>
    /\ hits = <<>>

\* The slot of the search result that the h-th kept slot is
SlotOf(h) ==
    CHOOSE k \in KeptSlots : Cardinality({j \in KeptSlots : j <= k}) = h

\* C13: the hits retrieve returns are a subsequence of the search result: the
\* h-th hit is made from the h-th kept slot, with the id and the score of that
\* slot and the metadata record of that id; scores do not increase along the
\* hits; there are at most top_k hits.
C13_HitsAreSubsequenceOfSearch ==
    rpc = "returned" =>
        /\ Len(hits) <= top_k
        /\ Len(hits) = Cardinality(KeptSlots)
        /\ \A h \in 1..Len(hits) :
              /\ hits[h].id = I[SlotOf(h)]
              /\ hits[h].score = D[SlotOf(h)]
              /\ hits[h] = Hit(I[SlotOf(h)], D[SlotOf(h)], metadata[I[SlotOf(h)]])
              /\ hits[h].text = <<"text", hits[h].id>>
        /\ \A h \in 1..(Len(hits) - 1) : hits[h].score >= hits[h + 1].score

\* C13 witness: two hits were returned from a search result of three slots, one
\* of which was dropped
C13_Witness ==
    /\ rpc = "returned"
    /\ top_k = 3
    /\ Len(hits) = 2
    /\ hits[1].id # hits[2].id
    /\ hits[1].score > hits[2].score

\* The positions of a token in a prompt, and the h-th of a set of positions
Positions(p, tok) == {k \in DOMAIN p : p[k] = tok}
NthPosition(S, h) == CHOOSE k \in S : Cardinality({j \in S : j <= k}) = h

\* C14: the prompt of improvised_rag.build_prompt has no Additional Insights
\* label, and nothing in the place of the block, when insights is None; when
\* insights is a non-empty text it has the label exactly once, followed by that
\* text.
C14_InsightsBlockOmittedWhenAbsent ==
    (rpc = "prompted" /\ variant = "improvised_rag") =>
        LET p == prompt[1]
            labels_at == Positions(p, InsightsLabel)
            question_at == NthPosition(Positions(p, Lit("\n\nUser Question:\n")), 1)
        IN  /\ insights = None =>
                /\ labels_at = {}
                /\ Len(p) = 5 + Len(context_block(hits))
                /\ p[question_at - 1] = Lit("\n\n")
                /\ question_at - 1 = 2 + Len(context_block(hits))
            /\ (insights # None /\ insights[1] # <<>>) =>
                /\ Cardinality(labels_at) = 1
                /\ \A k \in labels_at : p[k + 1] = Val(insights[1])
                /\ \A k \in labels_at : k + 3 = question_at

\* C14 witness: a prompt built with a non-empty insights text
C14_Witness ==
    /\ rpc = "prompted"
    /\ variant = "improvised_rag"
    /\ insights = Some(<<"insight">>)
    /\ Cardinality(Positions(prompt[1], InsightsLabel)) = 1

\* C14: a prompt built without insights
C14_WitnessAbsent ==
    /\ rpc = "prompted"
    /\ variant = "improvised_rag"
    /\ insights = None
    /\ hits # <<>>

\* C15: build_prompt renders one context entry per hit, with the source, the
\* product name and the excerpt text of that hit, in the order of the hits, and
\* one separator between two neighbouring entries (n entries and n - 1
\* separators for n >= 1 hits, none of either for no hit); it leaves the hits as
\* retrieve returned them, and the prompt is a function of its arguments.
C15_OneContextEntryPerHitInOrder ==
    rpc = "prompted" =>
        LET p == prompt[1]
            entries == Positions(p, Lit("Source: "))
            n == Len(hits)
        IN  /\ Cardinality(entries) = n
            /\ Cardinality(Positions(p, Separator)) = IF n = 0 THEN 0 ELSE n - 1
            /\ \A h \in 1..n :
                  LET k == NthPosition(entries, h)
                  IN  /\ p[k + 1] = Val(hits[h].source)
                      /\ p[k + 2] = Lit("\nProduct: ")
                      /\ p[k + 3] = Val(hits[h].product_name)
                      /\ p[k + 4] = Lit("\nExcerpt: ")
                      /\ p[k + 5] = Val(hits[h].text)
                      /\ p[k + 6] = Lit("\n")
                      /\ h < n => /\ p[k + 7] = Separator
                                  /\ NthPosition(entries, h + 1) = k + 8
            /\ hits = IF variant = "query_rag"
                      THEN retrieve_loop(I, D, metadata, 1)
                      ELSE improvised_retrieve_loop(I, D, metadata, 1)
            /\ prompt = IF variant = "query_rag"
                        THEN Some(build_prompt(Question, hits))
                        ELSE Some(improvised_build_prompt(Question, hits, insights))

\* C15 witness: a prompt of two hits, with one separator
C15_Witness ==
    /\ rpc = "prompted"
    /\ Len(hits) = 2
    /\ hits[1].id # hits[2].id
    /\ Cardinality(Positions(prompt[1], Separator)) = 1

----------------------------------------------------------------------------
(* Claims about the chunker called with an overlap that is not smaller than *)
(* the chunk size                                                            *)

\* C29: called with overlap >= size on a non-empty text, every pass of the loop
\* sets start back to the same or an earlier position, which is before the end
\* of the text, so the loop is entered again and the call never returns.
C29_OverlapNotBelowSizeNeverReturns ==
    /\ []((overlap >= size /\ ~NotText) => cpc # "returned")
    /\ [][(ChunkStep /\ overlap >= size) =>
            (start' <= start /\ start' < L /\ cpc' = "loop")]_vars
    /\ []((cpc = "loop" /\ overlap >= size /\ Len(chunks) <= MaxTextLen) =>
            ENABLED ChunkStep)

\* C29 witness: with overlap >= size the loop has appended the first chunk more
\* often than the text has characters, and start is still 0.
C29_Witness ==
    /\ overlap >= size
    /\ cpc = "loop"
    /\ start = 0
    /\ Len(chunks) = MaxTextLen + 1
    /\ \A k \in DOMAIN chunks : chunks[k] = chunks[1]

(* Claims about the graph builder *)

\* C16: whatever the chat model gives to triple extraction, building the graph
\* does not raise: the chunk adds nothing, or only its well-formed triples, and
\* build_graph_from_csv goes on with the next chunk.
C16_GraphBuildNeverRaises == gpc # "raised"

\* The part of C16 about a chat call that raises and a content that is not
\* JSON: the chunk adds no node and no edge and the build goes on
C16_UnparseableOutputAddsNothing ==
    [][(TriplesToGraph /\ content.shape \in {"chat_raises", "not_json"})
            => (graph' = graph /\ gpc' = "extract" /\ todo' = todo - 1)]_vars

\* A chat output that is a JSON record instead of a list of records ended the
\* build with an exception
C16_RaisedOnRecord ==
    /\ gpc = "raised"
    /\ content.shape = "object"

----------------------------------------------------------------------------
(* Claims about chunk_text *)

\* The first and the last n characters of a chunk
Prefix(c, n) == SubSeq(c, 1, n)
Suffix(c, n) == SubSeq(c, Len(c) - n + 1, Len(c))

\* text[start:start + size] for the start chunk number k was cut at
Window(k) == Slice(text[1], origins[k], origins[k] + size)

NoWhiteSpace == \A k \in 1..L : text[1][k] \notin WS
OnlyWhiteSpace == \A k \in 1..L : text[1][k] \in WS

\* C17 as stated: with 0 < O < C, the last O characters of a returned chunk are
\* the first O characters of the next one, unless the next one is clipped by the
\* end of the text.
C17_ConsecutiveChunksShareOverlap ==
    (cpc = "returned" /\ text # None /\ 0 < overlap /\ overlap < size) =>
        \A k \in 1..(Len(chunks) - 1) :
            \/ origins[k + 1] + size > L
            \/ /\ Len(chunks[k]) >= overlap
               /\ Len(chunks[k + 1]) >= overlap
               /\ Suffix(chunks[k], overlap) = Prefix(chunks[k + 1], overlap)

\* C17, amended: with 0 < O < C, every chunk is cut at a multiple of C - O, and
\* in a text without white space at the next multiple after the chunk before;
\* when two chunks are cut at neighbouring multiples, trimming shortened
\* neither of them, and the later one has at least O characters, the earlier
\* one has C characters and its last O are the first O of the later one.
C17_UntrimmedNeighboursShareOverlap ==
    (cpc = "returned" /\ text # None /\ 0 < overlap /\ overlap < size) =>
        /\ \A k \in 1..Len(chunks) : origins[k] % (size - overlap) = 0
        /\ NoWhiteSpace =>
              \A k \in 1..Len(chunks) : origins[k] = (k - 1) * (size - overlap)
        /\ \A k \in 1..(Len(chunks) - 1) :
              ( /\ origins[k + 1] = origins[k] + size - overlap
                /\ chunks[k] = Window(k)
                /\ chunks[k + 1] = Window(k + 1)
                /\ Len(chunks[k + 1]) >= overlap )
              => /\ Len(chunks[k]) = size
                 /\ Suffix(chunks[k], overlap) = Prefix(chunks[k + 1], overlap)

\* C17 witness: two untrimmed chunks of differing texts cut at neighbouring
\* positions, the second of full length
C17_Witness ==
    /\ cpc = "returned"
    /\ text # None
    /\ 0 < overlap /\ overlap < size
    /\ Len(chunks) >= 2
    /\ origins[2] = origins[1] + size - overlap
    /\ chunks[1] = Window(1)
    /\ chunks[2] = Window(2)
    /\ Len(chunks[2]) = size
    /\ chunks[1] # chunks[2]

\* ceil(a / b)
CeilDiv(a, b) == (a + b - 1) \div b

\* C18: for a text of length L without white space and 0 < O < C, L > O,
\* chunk_text returns exactly ceil((L - O) / (C - O)) chunks.
C18_ChunkCountIsCeiling ==
    (cpc = "returned" /\ text # None /\ 0 < overlap /\ overlap < size) =>
        ((NoWhiteSpace /\ L > overlap) =>
            Len(chunks) = CeilDiv(L - overlap, size - overlap))

\* C19: with 0 <= O < C every pass of the loop moves start up by C - O > 0, the
\* call is never stopped by the limit on the number of chunks, and it returns.
C19_ChunkTextTerminates ==
    /\ [][(ChunkStep /\ overlap < size)
            => (start' = start + size - overlap /\ start' > start)]_vars
    /\ []((cpc = "loop" /\ overlap < size) => ENABLED ChunkStep)
    /\ (cpc = "start" /\ overlap < size) ~> (cpc = "returned")

\* C19 witness: a call with O < C returned after more than one pass
C19_Witness ==
    /\ cpc = "returned"
    /\ overlap < size
    /\ Len(chunks) >= 2
    /\ start >= L

\* C20: every chunk is the trimmed text of its window: not empty, without white
\* space at either end, of at most C characters; the returned chunks are in the
\* order of their positions; a text that is None, empty or white space only
\* gives the empty list, and no call ends with an error.
C20_ChunksTrimmedNonEmptyInOrder ==
    /\ cpc \in {"start", "loop", "returned"}
    /\ cpc = "start" => ENABLED ChunkNext
    /\ \A k \in 1..Len(chunks) :
          /\ chunks[k] # <<>>
          /\ chunks[k][1] \notin WS
          /\ chunks[k][Len(chunks[k])] \notin WS
          /\ Len(chunks[k]) <= size
          /\ chunks[k] = Strip(Window(k))
    /\ cpc = "returned" =>
          \A k \in 1..(Len(chunks) - 1) : origins[k] < origins[k + 1]
    /\ (cpc = "returned" /\ NotText) => chunks = <<>>
    /\ (cpc = "returned" /\ ~NotText) => (OnlyWhiteSpace => chunks = <<>>)

\* C20 witness: two chunks returned, the first one shortened by trimming
C20_Witness ==
    /\ cpc = "returned"
    /\ Len(chunks) = 2
    /\ chunks[1] # Window(1)
    /\ Len(chunks[1]) < size

\* C20: a text of white space only gave the empty list
C20_WitnessWhiteSpace ==
    /\ cpc = "returned"
    /\ ~NotText
    /\ OnlyWhiteSpace
    /\ chunks = <<>>

----------------------------------------------------------------------------
(* Claims about the GUI *)

\* The workers of a kind, as positions in workers
WorkersOf(kind) == {k \in DOMAIN workers : workers[k].kind = kind}

\* C21: when analyse_data, improvised_rag or forecast is None, a request for it
\* makes no call of that module (for analyse_data and forecast no worker is
\* started at all), the page shows a placeholder text with the status label
\* cleared, and the buttons of the page shown keep working.
C21_MissingModuleShowsPlaceholder ==
    /\ [][(GoNext /\ selected_ngram # "none" /\ ~analyse_data_ok) =>
            /\ workers' = workers /\ calls' = calls
            /\ labels'.status_label = ""
            /\ labels'.concerns_text =
                  <<"Analysis module unavailable. Selected: ", selected_ngram>>]_vars
    /\ [][(GoForecast /\ selected_ngram # "none" /\ ~forecast_ok) =>
            /\ workers' = workers /\ calls' = calls
            /\ labels'.forecast_status_label = ""
            /\ labels'.insight_label = <<"Forecast module unavailable.">>]_vars
    /\ [][(Deliver /\ ~improvised_rag_ok /\ workers[Head(queue)].kind = "analysis"
                   /\ "error" \notin DOMAIN workers[Head(queue)].payload) =>
            /\ labels'.status_label = ""
            /\ labels'.summary_label = <<"Summary:\n\n", "RAG module unavailable.">>
            /\ labels'.suggestions_label = <<"Product Improvement Suggestions:\n\n">>
            /\ labels'.sources_label = <<"Sources:\n\n">>]_vars
    /\ [](/\ ~analyse_data_ok => (WorkersOf("analysis") = {}
                                  /\ "analyse_skin_concern" \notin calls
                                  /\ labels.status_label = "")
          /\ ~forecast_ok => (WorkersOf("forecast") = {}
                              /\ "run_forecasting_pipeline" \notin calls
                              /\ labels.forecast_status_label = "")
          /\ ~improvised_rag_ok => "retrieve" \notin calls)
    /\ [](/\ (current_index = 0 /\ ~analyse_data_ok) => ENABLED GoNext
          /\ current_index = 1 => (ENABLED SecondGoBack /\ ENABLED GoThird)
          /\ (current_index = 1 /\ ~forecast_ok) => ENABLED GoForecast
          /\ current_index = 2 => ENABLED ThirdGoBack
          /\ current_index = 3 => ENABLED ForecastGoBack)

\* C21 witness: the placeholder of a request without analyse_data is shown and
\* the user went on to the third page
C21_Witness ==
    /\ ~analyse_data_ok
    /\ labels.concerns_text = <<"Analysis module unavailable. Selected: ", "A">>
    /\ labels.status_label = ""
    /\ current_index = 2

\* The labels both pages show once the slot has handled the payload of a
\* successful analysis of the n-gram
ShownFor(ngram) == on_analysis_finished(InitialLabels, run_analysis(ngram, "ok"))

\* C23: a new analysis request leaves the earlier workers as they are and makes
\* the page refer to the new worker only; every emitted payload is handed to
\* the slot, whether or not the page still refers to its worker; and a running
\* worker can finish whatever the others do, so the results shown last can be
\* those of the earlier request.
C23_OverlappingRequestsBothDeliver ==
    /\ [][(GoNext /\ workers' # workers) =>
            /\ Len(workers') = Len(workers) + 1
            /\ \A k \in DOMAIN workers : workers'[k] = workers[k]
            /\ workers'[Len(workers')] = Worker("analysis", selected_ngram)
            /\ page2_worker' = Len(workers')
            /\ queue' = queue]_vars
    /\ [][(Deliver /\ workers[Head(queue)].kind = "analysis") =>
            labels' = on_analysis_finished(labels, workers[Head(queue)].payload)]_vars
    /\ [](\A k \in DOMAIN workers :
            /\ workers[k].state = "running" => ENABLED WorkerRun
            /\ workers[k].state = "emitted" =>
                    \E q \in DOMAIN queue : queue[q] = k)

\* C23 witness: A was requested, then B while A's worker ran; B's payload was
\* handled first and A's last, and both pages show A's results.
C23_Witness ==
    /\ Len(workers) = 2
    /\ workers[1] = [Worker("analysis", "A") EXCEPT
                        !.state = "handled", !.payload = run_analysis("A", "ok")]
    /\ workers[2] = [Worker("analysis", "B") EXCEPT
                        !.state = "handled", !.payload = run_analysis("B", "ok")]
    /\ page2_worker = 2
    /\ labels.concerns_text = ShownFor("A").concerns_text
    /\ labels.summary_label = ShownFor("A").summary_label
    /\ ShownFor("A").concerns_text # ShownFor("B").concerns_text
    /\ ShownFor("A").summary_label # ShownFor("B").summary_label

\* The state of the k-th worker started, "none" before it is started
StateOf(k) == IF k \in DOMAIN workers THEN workers[k].state ELSE "none"

\* The navigation handlers of the four pages
Navigation ==
    OnClick \/ GoNext \/ SecondGoBack \/ GoThird \/ GoForecast \/ ThirdGoBack
        \/ ForecastGoBack

\* C24: every started worker emits its payload and the slot of its page handles
\* it, whatever the user does meanwhile (each backend call returns or raises, the
\* threads are scheduled and the event loop runs); a navigation handler leaves
\* every started worker as it is and takes nothing from the waiting payloads.
C24_StartedWorkerIsEventuallyHandled ==
    /\ \A k \in 1..MaxWorkers :
            (StateOf(k) = "running") ~> (StateOf(k) = "handled")
    /\ [][Navigation =>
            /\ \A k \in DOMAIN workers : workers'[k] = workers[k]
            /\ queue' = queue]_vars
    /\ [][\A k \in DOMAIN workers :
            /\ workers'[k].state # workers[k].state =>
                    <<workers[k].state, workers'[k].state>> \in
                        {<<"running", "emitted">>, <<"emitted", "handled">>}
            /\ workers[k].state = "handled" => workers'[k] = workers[k]]_vars

\* C24 witness: an analysis and a forecast were started, the user went back to
\* the first page while they ran, and both payloads were handled.
C24_Witness ==
    /\ current_index = 0
    /\ \E a, f \in DOMAIN workers :
            /\ workers[a].kind = "analysis"
            /\ workers[f].kind = "forecast"
            /\ workers[a].state = "handled"
            /\ workers[f].state = "handled"
    /\ labels.status_label = ""
    /\ labels.forecast_status_label = ""
    /\ labels.insight_label # InitialLabels.insight_label

\* C25: while a worker started by a page is still running, the status label of
\* that page shows the in-progress text.
C25_StatusShownWhileWorkerRuns ==
    \A k \in DOMAIN workers :
        workers[k].state = "running" =>
            IF workers[k].kind = "analysis"
            THEN labels.status_label \in {Analyzing(ngram) : ngram \in Ngrams}
            ELSE labels.forecast_status_label \in
                    {Forecasting(ngram) : ngram \in Ngrams}

\* The labels of ThirdPage
ThirdPageLabels ==
    {"summary_label", "suggestions_label", "sources_label", "marketing_label"}

\* C26: whenever the slot of SecondPage sets the concerns text from a payload,
\* the labels of ThirdPage are set from the same payload, so ThirdPage never
\* keeps the sections of an earlier request.
C26_BothPagesShowTheSameRequest ==
    [][(Deliver /\ workers[Head(queue)].kind = "analysis") =>
        \A f \in ThirdPageLabels :
            labels'[f] = update_from_payload(labels, workers[Head(queue)].payload)[f]]_vars

(* Claims about the entry points of the RAG pipeline *)

\* C27: at every entry point the chat model is called only after retrieve
\* returned at least one hit.
C27_ChatModelCalledOnlyWithHits ==
    rpc = "answered" => hits # <<>>

(* Claims about the indexer during an outage of the embedding service *)

\* The texts of the first batch of docs
FirstBatchTexts ==
    [k \in 1..Len(Slice(docs, 0, BATCH_SIZE)) |-> Slice(docs, 0, BATCH_SIZE)[k].text]

\* C22: as long as no embedding call has returned, an indexer with at least one
\* document stays in its retry loop on the first batch: it is never done, the
\* offset stays 0, nothing is stored and neither output file is written; a
\* failed call always leads through the pause back to the same batch, and
\* nothing in the code counts the attempts.
C22_OutageRetriesFirstBatchForever ==
    /\ []((~embed_returned /\ Len(docs) > 0 /\ ipc # "read") =>
            /\ ipc \in {"loop", "embedding", "sleep"}
            /\ i = 0
            /\ \A k \in 1..Len(all_embeddings) : all_embeddings[k] = None
            /\ index = <<>>
            /\ index_file = NoFile
            /\ meta_file = NoFile)
    /\ [](ipc = "sleep" => ENABLED Sleep)
    /\ []((ipc = "loop" /\ i < Len(docs)) => ENABLED BatchStart)
    /\ [][EmbedFail => (ipc' = "sleep" /\ i' = i /\ embed_returned' = embed_returned)]_vars
    /\ [][Sleep => (ipc' = "loop" /\ i' = i /\ docs' = docs)]_vars
    /\ [][(BatchStart /\ ~embed_returned) => texts' = FirstBatchTexts]_vars

\* C22 witness: every call so far failed, several times, and the first batch is
\* being tried again.
C22_Witness ==
    /\ ~embed_returned
    /\ failures >= 2
    /\ ipc = "embedding"
    /\ i = 0
    /\ texts = FirstBatchTexts
    /\ index_file = NoFile
    /\ meta_file = NoFile

(* Claims about the graph builder *)

\* The element is a record whose three fields are texts (or missing keys)
Readable(t) ==
    /\ t.type = "object"
    /\ \A f \in {t.subject, t.relation, t.object} : f.type \in {"string", "missing"}

\* The trimmed text of a field of a readable element
Trimmed(field) == IF field.type = "string" THEN Strip(field.text) ELSE <<>>

\* The element is a triple with subject, relation and object non-empty after
\* trimming
WellFormed(t) ==
    /\ Readable(t)
    /\ Trimmed(t.subject) # <<>>
    /\ Trimmed(t.relation) # <<>>
    /\ Trimmed(t.object) # <<>>

\* The elements the loop has gone through: all of a list of readable elements,
\* else those before the first element that is not readable
Processed(tr) ==
    IF tr.shape \in {"number", "null"} THEN <<>>
    ELSE LET unreadable == {k \in DOMAIN tr.items : ~Readable(tr.items[k])}
         IN  IF unreadable = {} THEN tr.items
             ELSE SubSeq(tr.items, 1,
                         (CHOOSE k \in unreadable : \A m \in unreadable : k <= m) - 1)

PairOf(t) == <<Trimmed(t.subject), Trimmed(t.object)>>

\* The positions of the well-formed triples of the pair, and the last of them
PositionsOf(ts, pair) ==
    {k \in DOMAIN ts : WellFormed(ts[k]) /\ PairOf(ts[k]) = pair}

LastOf(ts, pair) ==
    CHOOSE k \in PositionsOf(ts, pair) : \A m \in PositionsOf(ts, pair) : m <= k

PairsOf(ts) == {PairOf(ts[k]) : k \in {m \in DOMAIN ts : WellFormed(ts[m])}}

\* C28: a call of triples_to_graph adds an edge (subject, object) exactly for
\* the pairs of the triples it went through whose three fields are non-empty
\* after trimming; the graph has one edge per ordered pair, whose relation is
\* that of the last such triple of the pair; the nodes added are the ends of
\* these edges, so a triple with an empty field adds no node and no edge.
C28_EdgesAreLastWellFormedTriples ==
    [][TriplesToGraph =>
        LET ts == Processed(triples) IN
        /\ DOMAIN graph'.edges = DOMAIN graph.edges \cup PairsOf(ts)
        /\ \A pair \in DOMAIN graph'.edges :
                graph'.edges[pair] =
                    IF pair \in PairsOf(ts)
                    THEN Trimmed(ts[LastOf(ts, pair)].relation)
                    ELSE graph.edges[pair]
        /\ graph'.nodes = graph.nodes
                \cup {pair[1] : pair \in PairsOf(ts)}
                \cup {pair[2] : pair \in PairsOf(ts)}
        /\ (gpc' = "raised") = (Len(ts) < Len(triples.items)
                                  \/ triples.shape \in {"number", "null"})]_vars

\* C28 witness: two triples of the pair (a, b) were processed, with relations
\* r and then s, and the one edge of the pair has relation s.
C28_Witness ==
    /\ gpc = "extract"
    /\ triples.items = <<Record(Str(<<" ", "a">>), Str(<<"r">>), Str(<<"b", " ">>)),
                         Record(Str(<<" ", "a">>), Str(<<"s", " ">>), Str(<<"b", " ">>))>>
    /\ graph.edges = (<<<<"a">>, <<"b">>>> :> <<"s">>)
    /\ graph.nodes = {<<"a">>, <<"b">>}

\* C28 witness: a triple whose subject is empty after trimming was processed
\* after a well-formed one and added nothing.
C28_WitnessEmptyField ==
    /\ gpc = "extract"
    /\ triples.items = <<Record(Str(<<"b">>), Str(<<"r">>), Str(<<"b", " ">>)),
                         Record(Str(<<" ">>), Str(<<"r">>), Str(<<"b", " ">>))>>
    /\ graph.edges = (<<<<"b">>, <<"b">>>> :> <<"r">>)

(* Claims about the product crawler *)

\* C30: a resumed run fetches no URL that an earlier run wrote a record for,
\* and a worker writes its records to the file given as output_file.
C30_ResumedRunSkipsRecordedUrls ==
    resume => (fetched \cap recorded = {})
====
